---------------------------- MODULE Spec2Model ----------------------------
(***************************************************************************)
(* Negotiation agents of group 40 (Group40Agent02, Group40Agent04,         *)
(* Group40Agent05) and the frequency opponent model they share             *)
(* (OpponentModel / IssueEstimator / ValueEstimator).                      *)
(*                                                                         *)
(* Numbers.  The agent's own utilities (Decimal) and the random draws are   *)
(* fixed-point numbers in units of 1/Scale.  Progress is an integer number *)
(* of hundredths (0 .. 100).  Python floats are binary floating point      *)
(* numbers [m, e] standing for m * 2^e, rounded to nearest (ties to even)  *)
(* after every operation as IEEE-754 does, with a significand of           *)
(* Significand bits where Python has 53, so that every intermediate value  *)
(* fits a 32-bit integer.  Bids are tuples of value indices, one per       *)
(* issue; the empty tuple stands for Python's None.                        *)
(***************************************************************************)
EXTENDS Integers, Sequences, FiniteSets, TLC

(***************************************************************************)
(* Bounds of the model.                                                    *)
(***************************************************************************)
\* number of counterpart offers delivered in one session
MaxOffers == 2
\* number of updates applied to a stand-alone opponent model
MaxEstOffers == 3
MaxIssueOffers == 6

Scale == 100 * 100

NoBid == << >>

Max2(a, b) == IF a >= b THEN a ELSE b
Min2(a, b) == IF a <= b THEN a ELSE b

RECURSIVE SumSeq(_)
SumSeq(s) == IF s = << >> THEN 0 ELSE Head(s) + SumSeq(Tail(s))

RECURSIVE ProdSeq(_)
ProdSeq(s) == IF s = << >> THEN 1 ELSE Head(s) * ProdSeq(Tail(s))

(***************************************************************************)
(* Python floats.                                                          *)
(***************************************************************************)
\* bits of the significand of a float
Significand == 13

\* 2^k for k = 0 .. 30
Pow2Tab ==
  << 2, 4, 8, 16, 32, 64, 128, 256, 512, 1024, 2048, 4096, 8192, 16384,
     32768, 65536, 131072, 262144, 524288, 1048576, 2097152, 4194304,
     8388608, 16777216, 33554432, 67108864, 134217728, 268435456,
     536870912, 1073741824 >>

Pow2(k) == IF k = 0 THEN 1 ELSE Pow2Tab[k]

\* significands lie in SigLo .. SigHi - 1
SigHi == Pow2(Significand)
SigLo == Pow2(Significand - 1)

FZero == [m |-> 0, e |-> 0]

\* the float nearest to (n / d) * 2^e, ties to the even significand
RECURSIVE FRound(_, _, _)
FRound(n, d, e) ==
  IF n = 0 THEN FZero
  ELSE IF n >= d * SigHi THEN FRound(n, 2 * d, e + 1)
  ELSE IF n < d * SigLo THEN FRound(2 * n, d, e - 1)
  ELSE LET q == n \div d
           r == n % d
       IN  IF 2 * r > d \/ (2 * r = d /\ q % 2 = 1)
           THEN IF q + 1 = SigHi THEN [m |-> SigLo, e |-> e + 1]
                ELSE [m |-> q + 1, e |-> e]
           ELSE [m |-> q, e |-> e]

\* float(n) of an integer n >= 0
FInt(n) == FRound(n, 1, 0)
FOne == [m |-> SigLo, e |-> 1 - Significand]

\* the float of a fixed-point number u / Scale
FFixed(u) == FRound(u * SigLo, Scale, 1 - Significand)

\* a < b
FLess(a, b) ==
  IF b.m = 0 THEN FALSE
  ELSE IF a.m = 0 THEN TRUE
  ELSE a.e < b.e \/ (a.e = b.e /\ a.m < b.m)

\* hi + lo for hi.e >= lo.e, both positive
FAddOrd(hi, lo) ==
  IF hi.e - lo.e > Significand + 2 THEN hi
  ELSE FRound(hi.m * Pow2(hi.e - lo.e) + lo.m, Pow2(hi.e - lo.e), hi.e)

\* a + b
FAdd(a, b) ==
  IF a.m = 0 THEN b
  ELSE IF b.m = 0 THEN a
  ELSE IF a.e >= b.e THEN FAddOrd(a, b) ELSE FAddOrd(b, a)

\* a - b for a >= b
FSub(a, b) ==
  IF b.m = 0 THEN a
  ELSE IF a.e - b.e > Significand + 2 THEN a
  ELSE FRound(a.m * Pow2(a.e - b.e) - b.m, 1, b.e)

\* a * b
FMul(a, b) ==
  IF a.m = 0 \/ b.m = 0 THEN FZero
  ELSE FRound(a.m * b.m, SigLo, a.e + b.e + Significand - 1)

\* a / b for b # 0
FDiv(a, b) ==
  IF a.m = 0 THEN FZero ELSE FRound(a.m * SigLo, b.m, a.e - b.e + 1 - Significand)

\* the sum of a sequence of floats, added from the left
RECURSIVE FSumFrom(_, _, _)
FSumFrom(s, i, acc) ==
  IF i > Len(s) THEN acc ELSE FSumFrom(s, i + 1, FAdd(acc, s[i]))

\* the float as a fixed-point number, rounded down
FToScale(f) ==
  IF f.e >= 0 THEN f.m * Pow2(f.e) * Scale
  ELSE IF 0 - f.e > 30 THEN 0
  ELSE (f.m * Scale) \div Pow2(0 - f.e)

\* f > u / Scale, compared exactly
FExceeds(f, u) ==
  IF f.m = 0 THEN 0 > u
  ELSE IF f.e >= 0 THEN FToScale(f) > u
  ELSE IF 0 - f.e > 30 THEN 0 >= u
  ELSE LET q == (f.m * Scale) \div Pow2(0 - f.e)
           r == (f.m * Scale) % Pow2(0 - f.e)
       IN  q > u \/ (q = u /\ r > 0)

(***************************************************************************)
(* Floating point powers x ** y, as exp(y * ln x) in fixed point.          *)
(***************************************************************************)
\* ln(n) * Scale for n = 1 .. 100
LnTab ==
  << 0, 6931, 10986, 13863, 16094, 17918, 19459, 20794, 21972, 23026,
     23979, 24849, 25649, 26391, 27081, 27726, 28332, 28904, 29444, 29957,
     30445, 30910, 31355, 31781, 32189, 32581, 32958, 33322, 33673, 34012,
     34340, 34657, 34965, 35264, 35553, 35835, 36109, 36376, 36636, 36889,
     37136, 37377, 37612, 37842, 38067, 38286, 38501, 38712, 38918, 39120,
     39318, 39512, 39703, 39890, 40073, 40254, 40431, 40604, 40775, 40943,
     41109, 41271, 41431, 41589, 41744, 41897, 42047, 42195, 42341, 42485,
     42627, 42767, 42905, 43041, 43175, 43307, 43438, 43567, 43694, 43820,
     43944, 44067, 44188, 44308, 44427, 44543, 44659, 44773, 44886, 44998,
     45109, 45218, 45326, 45433, 45539, 45643, 45747, 45850, 45951, 46052 >>

\* the Taylor series of exp(y), y >= 0 in fixed point, from the k-th term on
RECURSIVE ExpTerms(_, _, _)
ExpTerms(y, k, term) ==
  IF term = 0 THEN 0
  ELSE term + ExpTerms(y, k + 1, (term * y) \div (Scale * k))

Exp(y) ==
  IF y >= 0 THEN ExpTerms(y, 1, Scale)
  ELSE (Scale * Scale) \div ExpTerms(0 - y, 1, Scale)

\* (num / den) ** (en / ed) in fixed point, num, den in 1 .. 100, 0 ** e = 0
Pow(num, den, en, ed) ==
  IF num = 0 THEN (IF en = 0 THEN Scale ELSE 0)
  ELSE Exp((en * (LnTab[num] - LnTab[den])) \div ed)

(***************************************************************************)
(* Domain, bids and the agent's own profile (geniusweb, external).         *)
(* A profile is a record                                                   *)
(*   nv : number of values of each issue                                   *)
(*   w  : weight of each issue, in hundredths, summing to 100              *)
(*   vu : utility of each value of each issue, in hundredths, best = 100   *)
(*   rb : the reservation bid, or NoBid                                    *)
(***************************************************************************)
Profiles ==
  { [nv |-> <<2, 2>>, w |-> <<60, 40>>,
     vu |-> << <<0, 100>>, <<50, 100>> >>, rb |-> <<1, 2>>],
    [nv |-> <<4, 2>>, w |-> <<50, 50>>,
     vu |-> << <<100, 96, 90, 0>>, <<100, 92>> >>, rb |-> <<4, 1>>],
    [nv |-> <<1, 2>>, w |-> <<50, 50>>,
     vu |-> << <<100>>, <<100, 0>> >>, rb |-> NoBid] }

Issues(pf) == 1 .. Len(pf.nv)

\* AllBidsList.size()
NumBids(pf) == ProdSeq(pf.nv)

\* AllBidsList.get(i), i = 0 .. size - 1: the first issue varies fastest
RECURSIVE BidAt(_, _)
BidAt(nv, i) ==
  IF nv = << >> THEN << >>
  ELSE << (i % Head(nv)) + 1 >> \o BidAt(Tail(nv), i \div Head(nv))

\* every bid of the domain (AllBidsList, complete)
AllBids(pf) == { BidAt(pf.nv, i) : i \in 0 .. NumBids(pf) - 1 }

\* profile.getUtility(bid), a Decimal in [0, 1]
GetUtility(pf, bid) ==
  SumSeq([i \in Issues(pf) |-> pf.w[i] * pf.vu[i][bid[i]]])

\* utility of the reservation bid, 0 when there is none
ReservationUtil(pf) == IF pf.rb = NoBid THEN 0 ELSE GetUtility(pf, pf.rb)

\* the bid assigns to every issue a value of that issue's value set
LegalBid(pf, bid) ==
  /\ DOMAIN bid = Issues(pf)
  /\ \A i \in Issues(pf) : bid[i] \in 1 .. pf.nv[i]

(***************************************************************************)
(* Opponent model (agent03/utils/opponent_model.py).                       *)
(* An issue estimator is a record                                          *)
(*   bids_received, max_value_count, num_values,                           *)
(*   weight         : a float                                              *)
(*   value_trackers : value -> [count, utility], for the values seen       *)
(* A call that raises leaves the fields it had assigned before the raise;  *)
(* the field err names the exception of the last call ("" for none).       *)
(***************************************************************************)
NoTrackers == [v \in {} |-> [count |-> 0, utility |-> 0]]

\* IssueEstimator.__init__
NewIssueEstimator(k) ==
  [bids_received |-> 0, max_value_count |-> 0, num_values |-> k,
   weight |-> FZero, value_trackers |-> NoTrackers]

\* OpponentModel.__init__
NewOpponentModel(pf) ==
  [offers |-> << >>,
   issue_estimators |-> [i \in Issues(pf) |-> NewIssueEstimator(pf.nv[i])],
   err |-> ""]

\* the test of the weight always failing
WeightNeverBelowOne(weight) == FALSE

\* weight < 1
WeightBelowOne(weight) == FLess(weight, FOne)

\* recalculate_utility with the quotient turned over
RecalculateUtilityInverse(count, max_value_count, weight) ==
  IF WeightBelowOne(weight)
  THEN LET x == FSub(FOne, weight)
           ed == Pow2(0 - x.e)
           mod_value_count == Pow(count + 1, 1, x.m, ed) - Scale
           mod_max_value_count == Pow(max_value_count + 1, 1, x.m, ed) - Scale
       IN  (mod_max_value_count * Scale) \div mod_value_count
  ELSE Scale

\* ValueEstimator.recalculate_utility, in fixed point; the exponent
\* 1 - weight is the float x.m / 2^(-x.e)
RecalculateUtility(count, max_value_count, weight) ==
  IF WeightBelowOne(weight)
  THEN LET x == FSub(FOne, weight)
           ed == Pow2(0 - x.e)
           mod_value_count == Pow(count + 1, 1, x.m, ed) - Scale
           mod_max_value_count == Pow(max_value_count + 1, 1, x.m, ed) - Scale
       IN  (mod_value_count * Scale) \div mod_max_value_count
  ELSE Scale

\* value_trackers[value] followed by value_tracker.update()
TrackerUpdate(trackers, value) ==
  [v \in DOMAIN trackers \cup {value} |->
     IF v = value
     THEN [count |-> (IF v \in DOMAIN trackers THEN trackers[v].count ELSE 0) + 1,
           utility |-> IF v \in DOMAIN trackers THEN trackers[v].utility ELSE 0]
     ELSE trackers[v]]

\* equal_shares = bids_received / num_values
EqualShares(bids_received, num_values) ==
  FDiv(FInt(bids_received), FInt(num_values))

\* bids_received - equal_shares = 0: the division of the weight raises
WeightDivisionByZero(bids_received, num_values) ==
  FSub(FInt(bids_received), EqualShares(bids_received, num_values)) = FZero

\* the weight with the whole of bids_received as its denominator
IssueWeightOfAll(max_value_count, bids_received, num_values) ==
  LET equal_shares == EqualShares(bids_received, num_values)
  IN  FDiv(FSub(FInt(max_value_count), equal_shares), FInt(bids_received))

\* the weight with the whole of max_value_count as its numerator
IssueWeightOfMax(max_value_count, bids_received, num_values) ==
  LET equal_shares == EqualShares(bids_received, num_values)
  IN  FDiv(FInt(max_value_count), FSub(FInt(bids_received), equal_shares))

\* (max_value_count - equal_shares) / (bids_received - equal_shares)
IssueWeight(max_value_count, bids_received, num_values) ==
  LET equal_shares == EqualShares(bids_received, num_values)
  IN  FDiv(FSub(FInt(max_value_count), equal_shares),
           FSub(FInt(bids_received), equal_shares))

\* IssueEstimator.update; the result carries raised = TRUE when it raises
\* ZeroDivisionError, with the fields assigned up to the raise
IssueEstimatorUpdate(ie, value) ==
  LET br == ie.bids_received + 1
      vt == TrackerUpdate(ie.value_trackers, value)
      mvc == Max2(vt[value].count, ie.max_value_count)
      counted == [ie EXCEPT !.bids_received = br, !.value_trackers = vt,
                            !.max_value_count = mvc]
  IN  IF WeightDivisionByZero(br, ie.num_values)
      THEN [est |-> counted, raised |-> TRUE]
      ELSE LET wt == IssueWeight(mvc, br, ie.num_values)
           IN  [est |-> [counted EXCEPT
                  !.weight = wt,
                  !.value_trackers =
                     [v \in DOMAIN vt |->
                        [vt[v] EXCEPT !.utility =
                           RecalculateUtility(vt[v].count, mvc, wt)]]],
                raised |-> FALSE]

\* the loop of OpponentModel.update over the issue estimators, from issue i
RECURSIVE UpdateIssuesFrom(_, _, _)
UpdateIssuesFrom(ies, bid, i) ==
  IF i > Len(ies) THEN [ies |-> ies, raised |-> FALSE]
  ELSE LET r == IssueEstimatorUpdate(ies[i], bid[i])
           next == [ies EXCEPT ![i] = r.est]
       IN  IF r.raised THEN [ies |-> next, raised |-> TRUE]
           ELSE UpdateIssuesFrom(next, bid, i + 1)

\* OpponentModel.update with the bid put in front of the offers
OpponentModelUpdateFront(m, bid) ==
  LET r == UpdateIssuesFrom(m.issue_estimators, bid, 1)
  IN  [offers |-> << bid >> \o m.offers,
       issue_estimators |-> r.ies,
       err |-> IF r.raised THEN "ZeroDivisionError" ELSE ""]

\* OpponentModel.update
OpponentModelUpdate(m, bid) ==
  LET r == UpdateIssuesFrom(m.issue_estimators, bid, 1)
  IN  [offers |-> Append(m.offers, bid),
       issue_estimators |-> r.ies,
       err |-> IF r.raised THEN "ZeroDivisionError" ELSE ""]

\* the values of issue i in the recorded offers, in order of receipt
OfferedValues(m, i) == [j \in 1 .. Len(m.offers) |-> m.offers[j][i]]

\* a new IssueEstimator of num_values values after update(values[1]),
\* update(values[2]), ...
RECURSIVE IssueEstimatorAfter(_, _)
IssueEstimatorAfter(num_values, values) ==
  IF values = << >> THEN NewIssueEstimator(num_values)
  ELSE IssueEstimatorUpdate(
         IssueEstimatorAfter(num_values, SubSeq(values, 1, Len(values) - 1)),
         values[Len(values)]).est

\* get_value_utility with 1 for a value never offered
GetValueUtilityOfOne(ie, value) ==
  IF value \in DOMAIN ie.value_trackers
  THEN ie.value_trackers[value].utility
  ELSE Scale

\* IssueEstimator.get_value_utility
GetValueUtility(ie, value) ==
  IF value \in DOMAIN ie.value_trackers
  THEN ie.value_trackers[value].utility
  ELSE 0

\* get_issue_value_utilities without its test of issue_id: the lookup
\* self.issue_estimators[issue_id] raises
GetIssueValueUtilitiesUnguarded(m, issue_id) ==
  IF issue_id \notin DOMAIN m.issue_estimators
  THEN [raised |-> "KeyError", utilities |-> << >>, model |-> m]
  ELSE [raised |-> "",
        utilities |->
          [v \in DOMAIN m.issue_estimators[issue_id].value_trackers |->
             GetValueUtility(m.issue_estimators[issue_id], v)],
        model |-> m]

\* OpponentModel.get_issue_value_utilities: the error raised ("" for none),
\* the dictionary returned and the model as the call leaves it
GetIssueValueUtilities(m, issue_id) ==
  IF issue_id \notin DOMAIN m.issue_estimators
  THEN [raised |-> "ValueError", utilities |-> << >>, model |-> m]
  ELSE [raised |-> "",
        utilities |->
          [v \in DOMAIN m.issue_estimators[issue_id].value_trackers |->
             GetValueUtility(m.issue_estimators[issue_id], v)],
        model |-> m]

\* the weights divided by their sum, 1 / len each when the sum is 0.0
NormalisedWeights(issue_weights) ==
  LET total_issue_weight == FSumFrom(issue_weights, 1, FZero)
  IN  [i \in DOMAIN issue_weights |->
         IF total_issue_weight = FZero
         THEN FDiv(FOne, FInt(Len(issue_weights)))
         ELSE FDiv(issue_weights[i], total_issue_weight)]

\* OpponentModel.get_predicted_utility, a float
GetPredictedUtility(m, bid) ==
  IF Len(m.offers) = 0 \/ bid = NoBid THEN FZero
  ELSE LET ies == m.issue_estimators
           value_utilities ==
             [i \in DOMAIN ies |-> FFixed(GetValueUtility(ies[i], bid[i]))]
           issue_weights ==
             NormalisedWeights([i \in DOMAIN ies |-> ies[i].weight])
       IN  FSumFrom([i \in DOMAIN ies |->
                       FMul(issue_weights[i], value_utilities[i])], 1, FZero)

\* t - t1 of two floats: the sign and the magnitude of the difference
FDiff(t, t1) ==
  IF FLess(t, t1) THEN [neg |-> TRUE, abs |-> FSub(t1, t)]
  ELSE [neg |-> FALSE, abs |-> FSub(t, t1)]

\* calculate_concessions with None for fewer than 3 offers
CalculateConcessionsLate(m) ==
  IF Len(m.offers) < 3 THEN [none |-> TRUE, diffs |-> << >>]
  ELSE LET estimated_utilities ==
             [k \in 1 .. Len(m.offers) |-> GetPredictedUtility(m, m.offers[k])]
       IN  [none |-> FALSE,
            diffs |-> [k \in 1 .. Len(m.offers) - 1 |->
                         FDiff(estimated_utilities[k],
                               estimated_utilities[k + 1])]]

\* OpponentModel.calculate_concessions: none for a result of None, else
\* diffs the differences of zip(estimated_utilities, estimated_utilities[1:])
CalculateConcessions(m) ==
  IF Len(m.offers) < 2 THEN [none |-> TRUE, diffs |-> << >>]
  ELSE LET estimated_utilities ==
             [k \in 1 .. Len(m.offers) |-> GetPredictedUtility(m, m.offers[k])]
       IN  [none |-> FALSE,
            diffs |-> [k \in 1 .. Min2(Len(estimated_utilities),
                                       Len(Tail(estimated_utilities))) |->
                         FDiff(estimated_utilities[k],
                               Tail(estimated_utilities)[k])]]

\* x < 0 for a difference x
BelowZero(x) == x.neg /\ x.abs # FZero

\* OpponentModel.percent_below_zero, for a list that is not empty
PercentBelowZero(util_diff) ==
  FDiv(FInt(Cardinality({ k \in DOMAIN util_diff : BelowZero(util_diff[k]) })),
       FInt(Len(util_diff)))

(***************************************************************************)
(* State of one agent instance and of its session.                         *)
(***************************************************************************)
VARIABLES
  variant,            \* "Agent02", "Agent04" or "Agent05"; "Estimator" for a
                      \* stand-alone opponent model
  profile,            \* the profile the Settings event names
  pc,                 \* "new", "running", "crashed" or "finished"
  now,                \* the progress the clock shows
  turn_sent,          \* number of actions the last my_turn call sent,
                      \* -1 before the first call
  last_sent,          \* the action sent last, NoAction before the first
  error,              \* the exception that ended the last handler, or ""
  other,              \* name of the counterpart, "" for None
  last_received_bid,
  opponent_model,     \* << >> for None, << m >> for an OpponentModel
  time_to_bid,        \* progress at receipt -> bid
  all_bids_utility,   \* the dict as the sequence of its items [bid, util]
  last_my_turn_time,  \* -1 for None
  max_time_for_turn,
  call,               \* what a stand-alone call is given: the utilities
                      \* for the phase rules, << m >> for a call on the
                      \* estimator m; << >> in a session
  result,             \* what that call returned, "" before it returns
  turn_times,         \* history: the progress values at which Agent04 or
                      \* Agent05 handled a YourTurn event
  offers_received,    \* history: the bids of the Offer events of the
                      \* counterpart, in order of arrival
  instances           \* two agent instances of one process and the objects
                      \* they hold, << >> when one agent is modelled

vars ==
  << variant, profile, pc, now, turn_sent, last_sent, error, other,
     last_received_bid, opponent_model, time_to_bid, all_bids_utility,
     last_my_turn_time, max_time_for_turn, call, result, turn_times,
     offers_received, instances >>

Variants == {"Agent02", "Agent04", "Agent05"}

\* the progress values the clock is read at: the phase boundaries of
\* Agent02 and the start 0.96 of the window of 0.98; an early, a middle and
\* two late values for Agent04 and Agent05
ProgressPoints ==
  IF variant = "Agent02" THEN {0, 30, 60, 96, 98, 99, 100}
  ELSE {0, 60, 98, 100}

\* values of random.uniform(0, 1)
RandomDraws == {0, 1000, 5000}

NoTimes == [t \in {} |-> NoBid]

\* the agent's model, for the variants that have created it
Model == opponent_model[1]

HasModel == opponent_model # << >>

\* number of counterpart offers handed to the opponent model so far
NumOffers == IF HasModel THEN Len(Model.offers) ELSE 0

(***************************************************************************)
(* Constants of the acceptance and bidding policies, in hundredths.        *)
(***************************************************************************)
Phase1End == 30
Phase2End == 60
Phase3End == 99
FairnessEnd == 98
Alpha == 102
MinVal == 70
MaxVal == 100
EpsilonInv == 5
RvalueThreshold == 10
LowerWindow == 90

SetMax(S) == CHOOSE x \in S : \A y \in S : y <= x
SetMin(S) == CHOOSE x \in S : \A y \in S : x <= y

\* the utilities of the recorded bids with t >= start; start counts half
\* hundredths (see WindowStart)
WindowUtils(pf, ttb, start) ==
  { GetUtility(pf, ttb[t]) : t \in { u \in DOMAIN ttb : 2 * u >= start } }

\* _calc_max_w
CalcMaxW(pf, ttb, start) ==
  LET us == WindowUtils(pf, ttb, start)
  IN  IF us = {} THEN 0 ELSE SetMax(us \cup {0})

\* _calc_min_w
CalcMinW(pf, ttb, start) ==
  LET us == WindowUtils(pf, ttb, start)
  IN  IF us = {} THEN Scale ELSE SetMin(us \cup {Scale})

\* _calc_avg_w: curr_sum / Decimal(n), or Decimal(0.0) when no bid lies in
\* the window; the quotient is kept as the pair of the sum of the utilities
\* of the entries (not of the distinct utilities) and their number
CalcAvgW(pf, ttb, start) ==
  LET ts == { u \in DOMAIN ttb : 2 * u >= start }
      RECURSIVE SumOver(_)
      SumOver(rest) ==
        IF rest = {} THEN 0
        ELSE LET t == CHOOSE u \in rest : TRUE
             IN  GetUtility(pf, ttb[t]) + SumOver(rest \ {t})
  IN  IF ts = {} THEN [sum |-> 0, n |-> 1]
      ELSE [sum |-> SumOver(ts), n |-> Cardinality(ts)]

\* The progress values p (hundredths, as doubles) for which the Decimal
\* Decimal(p) - (Decimal(1.0) - Decimal(p)), each operation rounded to 28
\* significant digits, is greater than the double (2p - 100) / 100: a bid
\* received at exactly that time fails t >= start.
StartAbove ==
  {51, 52, 53, 54, 55, 56, 62, 65, 66, 67, 68, 74, 79, 80, 81, 85, 86, 87,
   91, 92, 93, 97, 98, 99}

\* w_start = Decimal(progress) - (Decimal(1.0) - Decimal(progress)), in half
\* hundredths: an odd result lies between two hundredths
WindowStart(p) == 2 * (p - (100 - p)) + (IF p \in StartAbove THEN 1 ELSE 0)

\* opponent_bid_util >= our_next_util * Decimal(1.02).  Decimal(1.02) is the
\* exact value of the double nearest to 1.02, which lies above 1.02 (by less
\* than 2e-17), so a utility of exactly 1.02 times a positive one falls short.
AcNext(opponent_bid_util, our_next_util) ==
  \/ opponent_bid_util * 100 > our_next_util * Alpha
  \/ opponent_bid_util * 100 = our_next_util * Alpha /\ our_next_util = 0

(***************************************************************************)
(* Group40Agent02: phased acceptance, per-issue bid construction.          *)
(***************************************************************************)
\* progress ** (1 / eps), eps = 0.2
ProgressPow(p) ==
  LET x == p * 100
      x2 == (x * x) \div Scale
      x4 == (x2 * x2) \div Scale
  IN  (x4 * x) \div Scale

\* time_pressure = 2.0 - progress ** (1 / eps)
TimePressure(p) == 2 * Scale - ProgressPow(p)

\* the score of value v of issue i against a counterpart that values every
\* value at one minus the agent's utility
ValueScore02Opposed(pf, p, i, v) ==
  TimePressure(p) * pf.w[i] * pf.vu[i][v]
    + Scale * pf.w[i] * (100 - pf.vu[i][v])

\* the score of value v of issue i; the opponent's weights and utilities
\* are the agent's own (lines 263-264)
ValueScore02(pf, p, i, v) ==
  TimePressure(p) * pf.w[i] * pf.vu[i][v] + Scale * pf.w[i] * pf.vu[i][v]

\* the first value of lowest score
WorstValue02(pf, p, i) ==
  SetMin({ v \in 1 .. pf.nv[i] :
             \A u \in 1 .. pf.nv[i] :
                ValueScore02(pf, p, i, v) <= ValueScore02(pf, p, i, u) })

\* max(curr_values, key=curr_values.get): the first value of highest score
BestValue02(pf, p, i) ==
  SetMin({ v \in 1 .. pf.nv[i] :
             \A u \in 1 .. pf.nv[i] :
                ValueScore02(pf, p, i, u) <= ValueScore02(pf, p, i, v) })

\* Group40Agent02.find_bid
FindBid02(pf, p) == [i \in Issues(pf) |-> BestValue02(pf, p, i)]

\* Group40Agent02.accept_condition with "return True" for a bid of None
AcceptCondition02Mut(pf, ttb, bid, p) ==
  IF bid = NoBid THEN "accept"
  ELSE LET our_next_util == GetUtility(pf, FindBid02(pf, p))
           opponent_bid_util == GetUtility(pf, bid)
           accepted ==
             IF p < Phase1End THEN AcNext(opponent_bid_util, our_next_util)
             ELSE IF p < Phase2End THEN opponent_bid_util >= our_next_util
             ELSE IF p < Phase3End
               THEN \/ opponent_bid_util >= our_next_util
                    \/ opponent_bid_util >= CalcMaxW(pf, ttb, WindowStart(p))
             ELSE TRUE
       IN  IF accepted THEN "accept" ELSE "reject"

\* Group40Agent02.accept_condition with the rule of the third phase applied
\* up to the deadline
AcceptCondition02Late(pf, ttb, bid, p) ==
  IF bid = NoBid THEN "reject"
  ELSE LET our_next_util == GetUtility(pf, FindBid02(pf, p))
           opponent_bid_util == GetUtility(pf, bid)
           accepted ==
             IF p < Phase1End THEN AcNext(opponent_bid_util, our_next_util)
             ELSE IF p < Phase2End THEN opponent_bid_util >= our_next_util
             ELSE \/ opponent_bid_util >= our_next_util
                  \/ opponent_bid_util >= CalcMaxW(pf, ttb, WindowStart(p))
       IN  IF accepted THEN "accept" ELSE "reject"

\* the phase rules with each boundary decided by the earlier phase
PhasedDecisionEarlier(p, opponent_bid_util, our_next_util, util_threshold) ==
  IF p <= Phase1End THEN AcNext(opponent_bid_util, our_next_util)
  ELSE IF p <= Phase2End THEN opponent_bid_util >= our_next_util
  ELSE IF p <= Phase3End
    THEN \/ opponent_bid_util >= our_next_util
         \/ opponent_bid_util >= util_threshold
  ELSE TRUE

\* the return statements of accept_condition, lines 232-251, on the
\* utilities of lines 229-230 and the util_threshold of line 247
PhasedDecision(p, opponent_bid_util, our_next_util, util_threshold) ==
  IF p < Phase1End THEN AcNext(opponent_bid_util, our_next_util)
  ELSE IF p < Phase2End THEN opponent_bid_util >= our_next_util
  ELSE IF p < Phase3End
    THEN \/ opponent_bid_util >= our_next_util
         \/ opponent_bid_util >= util_threshold
  ELSE TRUE

\* Group40Agent02.accept_condition: "accept" or "reject"
AcceptCondition02(pf, ttb, bid, p) ==
  IF bid = NoBid THEN "reject"
  ELSE IF PhasedDecision(p, GetUtility(pf, bid),
                         GetUtility(pf, FindBid02(pf, p)),
                         CalcMaxW(pf, ttb, WindowStart(p)))
       THEN "accept" ELSE "reject"

(***************************************************************************)
(* Group40Agent04 and Group40Agent05: statistical acceptance, bids sampled *)
(* from the precomputed table all_bids_utility.                            *)
(***************************************************************************)
\* the loop of notifyChange that fills all_bids_utility:
\* for i in range(0, all_bids_list.size() - 1)
AllBidsUtility(pf) ==
  [k \in 1 .. NumBids(pf) - 1 |->
     [bid |-> BidAt(pf.nv, k - 1), util |-> GetUtility(pf, BidAt(pf.nv, k - 1))]]

\* round(n * 0.1), Python rounding half to even
Round10(n) ==
  LET q == n \div 10
      r == n % 10
  IN  IF r < 5 THEN q
      ELSE IF r > 5 THEN q + 1
      ELSE IF q % 2 = 0 THEN q ELSE q + 1

\* math.ceil(n * 0.8)
Ceil08(n) == (8 * n + 9) \div 10

\* Group40Agent05.calculate_given_utility
CalculateGivenUtility(pf, m) ==
  [k \in 1 .. Len(m.offers) |-> GetUtility(pf, m.offers[k])]

\* mean(calculate_given_utility()[ceil(len * 0.8):] or [1])
AvgGivenUtil(pf, m) ==
  LET given == CalculateGivenUtility(pf, m)
      recent == SubSeq(given, Ceil08(Len(given)) + 1, Len(given))
  IN  IF recent = << >> THEN Scale ELSE SumSeq(recent) \div Len(recent)

\* the utility floor of find_bid: the constant 0.9 in Agent04,
\* 1.0 - float(avg_given_util) * progress in Agent05
LowerWindow04 == LowerWindow * 100

\* 1.0 - float(avg_given_util) * progress
Floor05(avg, p) == Scale - (avg * p) \div 100

LowerWindow05(pf, m, p) == Floor05(AvgGivenUtil(pf, m), p)

\* no filter: every item of the table
FilterBidsAll(table, floor) == table

\* the filter of find_bid: the items of the table at or above the floor,
\* in the order of the table
RECURSIVE FilterBids(_, _)
FilterBids(table, floor) ==
  IF table = << >> THEN << >>
  ELSE IF Head(table).util >= floor
       THEN << Head(table) >> \o FilterBids(Tail(table), floor)
       ELSE FilterBids(Tail(table), floor)

\* the value the candidates are sorted by:
\* Decimal(str(get_predicted_utility(bid))) + all_bids_utility.get(bid)
\* (str and Decimal keep the value of the float)
BidScore(m, item) == FToScale(GetPredictedUtility(m, item.bid)) + item.util

\* the position of candidate a when the candidates are sorted by descending
\* score, candidates of equal score in the order of the table (sorted is
\* stable)
Rank(score, a) ==
  1 + Cardinality({ b \in DOMAIN score :
                      score[b] > score[a] \/ (score[b] = score[a] /\ b < a) })

\* the bids of the candidates in the order of their ranks
SortByScore(cands, score) ==
  [k \in DOMAIN cands |->
     cands[CHOOSE a \in DOMAIN cands : Rank(score, a) = k].bid]

\* sorted(possible_bids.items(), key=lambda x: x[1], reverse=True)
SortedBids(m, cands) ==
  CHOOSE sorted_bids \in
    { SortByScore(cands, score) :
        score \in { [a \in DOMAIN cands |-> BidScore(m, cands[a])] } } : TRUE

\* the values randint(0, round(len(sorted_bids) * 0.1)) can return
IndexDraws(sorted_bids) == 0 .. Round10(Len(sorted_bids))

\* sorted_bids[index][0]; raised = TRUE for IndexError
PickBid(sorted_bids, index) ==
  IF index < Len(sorted_bids)
  THEN [raised |-> FALSE, bid |-> sorted_bids[index + 1]]
  ELSE [raised |-> TRUE, bid |-> NoBid]

\* sorted_bids of Group40Agent04.find_bid / Group40Agent05.find_bid
SortedBids04(table, m) == SortedBids(m, FilterBids(table, LowerWindow04))

SortedBids05(pf, table, m, p) ==
  SortedBids(m, FilterBids(table, LowerWindow05(pf, m, p)))

\* delta = min_val + (max_val - min_val) * ((1.0 - progress) ** epsilon)
Delta(p) ==
  MinVal * 100 + ((MaxVal - MinVal) * Pow(100 - p, 100, 1, EpsilonInv)) \div 100

\* the three triggers of the statistical policy, after the reject guards:
\* "accept", "reject", or "TypeError" when p_accept is a Decimal (the offered
\* utility is below the window minimum) and p_accept - r_value is evaluated
Triggers(pf, ttb, max_turn, opponent_bid_util, our_next_util, p, r) ==
  LET min_opponent_bid_util == CalcMinW(pf, ttb, WindowStart(p))
      r_value == r + Delta(p)
  IN  IF opponent_bid_util < min_opponent_bid_util THEN "TypeError"
      ELSE IF Scale - r_value >= RvalueThreshold * 100 THEN "accept"
      ELSE IF AcNext(opponent_bid_util, our_next_util) THEN "accept"
      ELSE IF p + max_turn > 100 THEN "accept"
      ELSE "reject"

\* the reservation test left out
BelowReservation04Mut(pf, opponent_bid_util) == FALSE

\* our_reservation_util > opponent_bid_util (Agent04, line 288)
BelowReservation04(pf, opponent_bid_util) ==
  ReservationUtil(pf) > opponent_bid_util

\* Group40Agent04.accept_condition; next is the result of its find_bid call
AcceptCondition04(pf, ttb, max_turn, bid, p, next, r) ==
  IF bid = NoBid THEN "reject"
  ELSE IF next.raised THEN "IndexError"
  ELSE IF BelowReservation04(pf, GetUtility(pf, bid)) THEN "reject"
  ELSE Triggers(pf, ttb, max_turn, GetUtility(pf, bid),
                GetUtility(pf, next.bid), p, r)

\* reservation_bid >= own_utility (Agent05, line 257)
BelowReservation05(pf, own_utility) == ReservationUtil(pf) >= own_utility

\* the fairness test left out
FairnessGuard05Off(m, bid, own_utility, p) == FALSE

\* expected_opponent_utility > own_utility and progress < 0.98
FairnessGuard05(m, bid, own_utility, p) ==
  FExceeds(GetPredictedUtility(m, bid), own_utility) /\ p < FairnessEnd

\* Group40Agent05.accept_condition; next is the result of its find_bid call
AcceptCondition05(pf, ttb, m, max_turn, bid, p, next, r) ==
  IF bid = NoBid THEN "reject"
  ELSE IF \/ BelowReservation05(pf, GetUtility(pf, bid))
          \/ FairnessGuard05(m, bid, GetUtility(pf, bid), p) THEN "reject"
  ELSE IF next.raised THEN "IndexError"
  ELSE IF BelowReservation04(pf, GetUtility(pf, bid)) THEN "reject"
  ELSE Triggers(pf, ttb, max_turn, GetUtility(pf, bid),
                GetUtility(pf, next.bid), p, r)

(***************************************************************************)
(* The session: the events notifyChange handles.                           *)
(***************************************************************************)
Accept(bid) == [type |-> "Accept", bid |-> bid]
Offer(bid) == [type |-> "Offer", bid |-> bid]
NoAction == [type |-> "None", bid |-> NoBid]

\* the bids the counterpart offers: the first, the middle and the last bid
\* of the domain's list
OfferedBids(pf) ==
  { BidAt(pf.nv, i) : i \in {0, NumBids(pf) \div 2, NumBids(pf) - 1} }

\* __init__ of the three agents; the profile and the variant are the ones
\* the session will run with
Init ==
  /\ variant \in Variants
  /\ profile \in Profiles
  /\ pc = "new"
  /\ now = 0
  /\ turn_sent = -1
  /\ last_sent = NoAction
  /\ error = ""
  /\ other = ""
  /\ last_received_bid = NoBid
  /\ opponent_model = << >>
  /\ time_to_bid = NoTimes
  /\ all_bids_utility = << >>
  /\ last_my_turn_time = -1
  /\ max_time_for_turn = 0
  /\ call = << >>
  /\ result = ""
  /\ turn_times = {}
  /\ offers_received = << >>
  /\ instances = << >>

\* the clock advances between two events
Tick ==
  /\ pc = "running"
  /\ \E t \in ProgressPoints : t > now /\ now' = t
  /\ UNCHANGED << call, result, turn_times, offers_received, instances,
                  variant, profile, pc, turn_sent, last_sent, error, other,
                  last_received_bid, opponent_model, time_to_bid,
                  all_bids_utility, last_my_turn_time, max_time_for_turn >>

\* notifyChange(Settings)
Settings ==
  /\ pc = "new"
  /\ pc' = "running"
  /\ IF variant = "Agent02"
     THEN UNCHANGED << opponent_model, all_bids_utility >>
     ELSE /\ opponent_model' = << NewOpponentModel(profile) >>
          /\ all_bids_utility' = AllBidsUtility(profile)
  /\ UNCHANGED << call, result, turn_times, offers_received, instances,
                  variant, profile, now, turn_sent, last_sent, error, other,
                  last_received_bid, time_to_bid, last_my_turn_time,
                  max_time_for_turn >>

\* a table that keeps the first bid recorded under a key
SetTimeKeepFirst(ttb, t, bid) ==
  [u \in DOMAIN ttb \cup {t} |-> IF u \in DOMAIN ttb THEN ttb[u] ELSE bid]

\* self.time_to_bid[progress] = bid
SetTime(ttb, t, bid) ==
  [u \in DOMAIN ttb \cup {t} |-> IF u = t THEN bid ELSE ttb[u]]

\* notifyChange(ActionDone) with an Offer of the counterpart: opponent_action
OpponentOffer(bid) ==
  /\ pc = "running"
  /\ NumOffers < MaxOffers
  /\ \E m1 \in { OpponentModelUpdate(
                    IF HasModel THEN Model ELSE NewOpponentModel(profile),
                    bid) } :
         /\ other' = "opponent"
         /\ time_to_bid' = SetTime(time_to_bid, now, bid)
         /\ opponent_model' = << m1 >>
         /\ IF m1.err = ""
            THEN /\ last_received_bid' = bid
                 /\ UNCHANGED << pc, error >>
            ELSE /\ pc' = "crashed"
                 /\ error' = m1.err
                 /\ UNCHANGED last_received_bid
  /\ offers_received' = Append(offers_received, bid)
  /\ UNCHANGED << call, result, turn_times, instances, variant, profile, now,
                  turn_sent, last_sent, all_bids_utility, last_my_turn_time,
                  max_time_for_turn >>

\* notifyChange(ActionDone) with an action of the agent itself
OwnActionDone ==
  /\ pc = "running"
  /\ UNCHANGED vars

\* an Accept of the counterpart handled as an Offer: its bid becomes the
\* last received bid
OpponentAcceptAsOffer ==
  /\ pc = "running"
  /\ other' = "opponent"
  /\ \E bid \in OfferedBids(profile) :
       /\ bid # last_received_bid
       /\ last_received_bid' = bid
  /\ UNCHANGED << call, result, turn_times, offers_received, instances,
                  variant, profile, pc, now, turn_sent, last_sent, error,
                  opponent_model, time_to_bid, all_bids_utility,
                  last_my_turn_time, max_time_for_turn >>

\* notifyChange(ActionDone) with an Accept of the counterpart: the name of
\* the counterpart is recorded, opponent_action does nothing
OpponentAccept ==
  /\ pc = "running"
  /\ other' = "opponent"
  /\ UNCHANGED << call, result, turn_times, offers_received, instances,
                  variant, profile, pc, now, turn_sent, last_sent, error,
                  last_received_bid, opponent_model, time_to_bid,
                  all_bids_utility, last_my_turn_time, max_time_for_turn >>

\* notifyChange with an event of no known type
UnknownEvent ==
  /\ pc = "running"
  /\ UNCHANGED vars

\* notifyChange(Finished)
Finished ==
  /\ pc = "running"
  /\ pc' = "finished"
  /\ UNCHANGED << call, result, turn_times, offers_received, instances,
                  variant, profile, now, turn_sent, last_sent, error, other,
                  last_received_bid, opponent_model, time_to_bid,
                  all_bids_utility, last_my_turn_time, max_time_for_turn >>

\* sorted_bids of find_bid at progress p (<< >> in Agent02, which has none)
SortedNow(p) ==
  IF variant = "Agent04" THEN SortedBids04(all_bids_utility, Model)
  ELSE IF variant = "Agent05"
  THEN SortedBids05(profile, all_bids_utility, Model, p)
  ELSE << >>

\* find_bid at progress p, its candidates sorted as sorted_bids and its
\* random index drawn as index
FindBid(sorted_bids, p, index) ==
  IF variant = "Agent02"
  THEN [raised |-> FALSE, bid |-> FindBid02(profile, p)]
  ELSE PickBid(sorted_bids, index)

\* accept_condition(bid) at progress p, next the result of its find_bid call
\* and r its random.uniform draw: "accept", "reject" or the exception raised
AcceptCondition(bid, p, next, r) ==
  IF variant = "Agent02"
  THEN AcceptCondition02(profile, time_to_bid, bid, p)
  ELSE IF variant = "Agent04"
  THEN AcceptCondition04(profile, time_to_bid, max_time_for_turn, bid, p,
                         next, r)
  ELSE AcceptCondition05(profile, time_to_bid, Model, max_time_for_turn,
                         bid, p, next, r)

\* the outcome of my_turn up to send_action, for the draws i1 (find_bid in
\* accept_condition), r (random.uniform) and i2 (find_bid of my_turn):
\* the action to send, or the exception raised
TurnOutcome(sorted_bids, p, i1, r, i2) ==
  LET decision ==
        AcceptCondition(last_received_bid, p, FindBid(sorted_bids, p, i1), r)
      counter == FindBid(sorted_bids, p, i2)
  IN  IF decision = "accept"
      THEN [raised |-> "", action |-> Accept(last_received_bid)]
      ELSE IF decision # "reject"
      THEN [raised |-> decision, action |-> NoAction]
      ELSE IF counter.raised
      THEN [raised |-> "IndexError", action |-> NoAction]
      ELSE [raised |-> "", action |-> Offer(counter.bid)]

\* max_time_for_turn set to the gap of the last two turns
LastTurnTime(p) ==
  IF last_my_turn_time = -1 THEN max_time_for_turn
  ELSE p - last_my_turn_time

\* max_time_for_turn after a turn that ends at progress p (lines 217-226)
NextMaxTime(p) ==
  IF last_my_turn_time = -1 THEN max_time_for_turn
  ELSE Max2(max_time_for_turn, p - last_my_turn_time)

\* notifyChange(YourTurn): my_turn.  All clock reads of one turn show now.
MyTurn ==
  /\ pc = "running"
  /\ \E sorted_bids \in { SortedNow(now) } :
       \E i1 \in IndexDraws(sorted_bids), i2 \in IndexDraws(sorted_bids),
          r \in RandomDraws :
         \E out \in { TurnOutcome(sorted_bids, now, i1, r, i2) } :
           IF out.raised = ""
           THEN /\ turn_sent' = 1
                /\ last_sent' = out.action
                /\ IF variant = "Agent02"
                   THEN UNCHANGED << last_my_turn_time, max_time_for_turn >>
                   ELSE /\ last_my_turn_time' = now
                        /\ max_time_for_turn' = NextMaxTime(now)
                /\ UNCHANGED << pc, error >>
           ELSE /\ pc' = "crashed"
                /\ error' = out.raised
                /\ turn_sent' = 0
                /\ UNCHANGED << last_sent, last_my_turn_time,
                                max_time_for_turn >>
  /\ turn_times' = IF variant = "Agent02" THEN turn_times
                   ELSE turn_times \cup {now}
  /\ UNCHANGED << call, result, offers_received, instances, variant, profile,
                  now, other, last_received_bid, opponent_model, time_to_bid,
                  all_bids_utility >>

Next ==
  \/ Tick
  \/ Settings
  \/ \E bid \in OfferedBids(profile) : OpponentOffer(bid)
  \/ OwnActionDone
  \/ OpponentAccept
  \/ UnknownEvent
  \/ MyTurn
  \/ Finished

Spec == Init /\ [][Next]_vars

(***************************************************************************)
(* A stand-alone opponent model: OpponentModel(domain) followed by calls   *)
(* of update with bids of the domain.  A caller may go on after a call     *)
(* that raised.                                                            *)
(***************************************************************************)
\* the domains of the stand-alone model: those of Profiles and one of three
\* issues
EstProfiles ==
  Profiles \cup
    { [nv |-> <<2, 3, 2>>, w |-> <<50, 30, 20>>,
       vu |-> << <<100, 0>>, <<100, 50, 0>> , <<100, 0>> >>, rb |-> NoBid] }

InitEst ==
  /\ variant = "Estimator"
  /\ profile \in EstProfiles
  /\ pc = "running"
  /\ now = 0
  /\ turn_sent = -1
  /\ last_sent = NoAction
  /\ error = ""
  /\ other = ""
  /\ last_received_bid = NoBid
  /\ opponent_model = << NewOpponentModel(profile) >>
  /\ time_to_bid = NoTimes
  /\ all_bids_utility = << >>
  /\ last_my_turn_time = -1
  /\ max_time_for_turn = 0
  /\ call = << >>
  /\ result = ""
  /\ turn_times = {}
  /\ offers_received = << >>
  /\ instances = << >>

\* OpponentModel.update(bid)
EstUpdate(bid) ==
  /\ variant = "Estimator"
  /\ Len(Model.offers) <
       (IF Len(profile.nv) = 1 THEN MaxIssueOffers ELSE MaxEstOffers)
  /\ \E m1 \in { OpponentModelUpdate(Model, bid) } :
       /\ opponent_model' = << m1 >>
       /\ error' = m1.err
  /\ UNCHANGED << call, result, turn_times, offers_received, instances,
                  variant, profile, pc, now, turn_sent, last_sent, other,
                  last_received_bid, time_to_bid, all_bids_utility,
                  last_my_turn_time, max_time_for_turn >>

\* the issue ids a caller passes: those of the domain and two that are not
IssueIds == 0 .. Len(profile.nv) + 1

\* OpponentModel.get_issue_value_utilities(issue_id)
EstQuery(issue_id) ==
  /\ variant = "Estimator"
  /\ \E r \in { GetIssueValueUtilities(Model, issue_id) } :
       /\ opponent_model' = << r.model >>
       /\ error' = r.raised
  /\ UNCHANGED << call, result, turn_times, offers_received, instances,
                  variant, profile, pc, now, turn_sent, last_sent, other,
                  last_received_bid, time_to_bid, all_bids_utility,
                  last_my_turn_time, max_time_for_turn >>

NextEst ==
  \/ \E bid \in AllBids(profile) : EstUpdate(bid)
  \/ \E issue_id \in IssueIds : EstQuery(issue_id)

SpecEst == InitEst /\ [][NextEst]_vars

\* Domains of one issue, for a single IssueEstimator fed one value per offer
IssueProfiles ==
  { [nv |-> <<2>>, w |-> <<100>>, vu |-> << <<100, 0>> >>, rb |-> NoBid],
    [nv |-> <<3>>, w |-> <<100>>, vu |-> << <<100, 50, 0>> >>, rb |-> NoBid] }

InitIssue ==
  /\ variant = "Estimator"
  /\ profile \in IssueProfiles
  /\ pc = "running"
  /\ now = 0
  /\ turn_sent = -1
  /\ last_sent = NoAction
  /\ error = ""
  /\ other = ""
  /\ last_received_bid = NoBid
  /\ opponent_model = << NewOpponentModel(profile) >>
  /\ time_to_bid = NoTimes
  /\ all_bids_utility = << >>
  /\ last_my_turn_time = -1
  /\ max_time_for_turn = 0
  /\ call = << >>
  /\ result = ""
  /\ turn_times = {}
  /\ offers_received = << >>
  /\ instances = << >>

SpecIssue == InitIssue /\ [][NextEst]_vars

\* Utilities profile.getUtility returns, in pairs u and 1.02 u
UtilityPoints == {0, 2500, 2550, 5000, 5100, 10000}

\* The phase rules of Group40Agent02.accept_condition on their own: every
\* progress value in hundredths, the three utilities drawn from
\* UtilityPoints
InitPhased ==
  /\ variant = "Agent02"
  /\ profile \in { pf \in Profiles : pf.nv = << 2, 2 >> }
  /\ pc = "running"
  /\ now \in 0 .. 100
  /\ turn_sent = -1
  /\ last_sent = NoAction
  /\ error = ""
  /\ other = ""
  /\ last_received_bid = NoBid
  /\ opponent_model = << >>
  /\ time_to_bid = NoTimes
  /\ all_bids_utility = << >>
  /\ last_my_turn_time = -1
  /\ max_time_for_turn = 0
  /\ call \in [opponent_bid_util : UtilityPoints,
                our_next_util : UtilityPoints,
                util_threshold : UtilityPoints]
  /\ result = ""
  /\ turn_times = {}
  /\ offers_received = << >>
  /\ instances = << >>

\* lines 232-251 of accept_condition
Decide ==
  /\ call # << >>
  /\ result = ""
  /\ result' = IF PhasedDecision(now, call.opponent_bid_util,
                                 call.our_next_util, call.util_threshold)
               THEN "accept" ELSE "reject"
  /\ UNCHANGED << call, turn_times, offers_received, instances, variant,
                  profile, pc, now, turn_sent, last_sent, error, other,
                  last_received_bid, opponent_model, time_to_bid,
                  all_bids_utility, last_my_turn_time, max_time_for_turn >>

SpecPhased == InitPhased /\ [][Decide]_vars

(***************************************************************************)
(* Properties.                                                             *)
(***************************************************************************)
\* C1: in every variant accept_condition(None) is false at every progress
\* value, for every random draw and in every session state, and no Accept
\* has been sent as long as no offer of the counterpart has been received.
C1_NullBidNeverAccepted ==
  /\ \A p \in ProgressPoints, r \in RandomDraws :
       AcceptCondition(NoBid, p, FindBid(SortedNow(p), p, 0), r) = "reject"
  /\ last_received_bid = NoBid => last_sent.type # "Accept"

\* a turn taken before any offer of the counterpart was answered by an Offer
C1_Witness ==
  /\ variant = "Agent05"
  /\ last_received_bid = NoBid
  /\ turn_sent = 1
  /\ last_sent.type = "Offer"

\* C2: in Group40Agent02, at every progress from 0.99 on, accept_condition
\* is true for every bid of the domain, whatever its utility, the utility of
\* the next counter-offer and the offers received so far.
C2_PhaseFourAccepts ==
  (variant = "Agent02" /\ pc = "running") =>
    \A p \in 99 .. 100, b \in AllBids(profile) :
       AcceptCondition02(profile, time_to_bid, b, p) = "accept"

\* Group40Agent02 accepted an offer it received at progress 0.99 although
\* the counter-offer is worth more and a better offer is on record
C2_Witness ==
  /\ variant = "Agent02"
  /\ last_sent.type = "Accept"
  /\ last_received_bid = last_sent.bid
  /\ 99 \in DOMAIN time_to_bid
  /\ time_to_bid[99] = last_sent.bid
  /\ GetUtility(profile, last_sent.bid)
       < GetUtility(profile, FindBid02(profile, now))
  /\ \E t \in DOMAIN time_to_bid :
       GetUtility(profile, time_to_bid[t]) > GetUtility(profile, last_sent.bid)

\* C3: in Group40Agent04 and Group40Agent05 accept_condition is not true for
\* a bid whose own utility is strictly below the reservation utility,
\* whatever the progress, the draws and the triggers; no such bid has been
\* accepted.
C3_ReservationFloor ==
  /\ (variant \in {"Agent04", "Agent05"} /\ pc = "running") =>
       LET sorted_bids == SortedNow(now)
       IN  \A b \in AllBids(profile) :
             GetUtility(profile, b) < ReservationUtil(profile) =>
               \A index \in IndexDraws(sorted_bids), r \in RandomDraws :
                  AcceptCondition(b, now, FindBid(sorted_bids, now, index), r)
                    # "accept"
  /\ (variant \in {"Agent04", "Agent05"} /\ last_sent.type = "Accept") =>
       GetUtility(profile, last_sent.bid) >= ReservationUtil(profile)

\* Group40Agent04 answered with an Offer, at the deadline, an offer below the
\* reservation utility that the triggers alone accept
C3_Witness ==
  /\ variant = "Agent04"
  /\ pc = "running"
  /\ last_received_bid # NoBid
  /\ GetUtility(profile, last_received_bid) < ReservationUtil(profile)
  /\ turn_sent = 1
  /\ last_sent.type = "Offer"
  /\ last_my_turn_time = now
  /\ Triggers(profile, time_to_bid, max_time_for_turn,
              GetUtility(profile, last_received_bid),
              GetUtility(profile, last_sent.bid), now, 0) = "accept"

\* C4: every my_turn call sends exactly one action, an Accept or an Offer.
C4_ExactlyOneAction ==
  /\ turn_sent \in {-1, 1}
  /\ turn_sent = 1 => last_sent.type \in {"Accept", "Offer"}

\* C5: get_predicted_utility is 0 for every bid before any update, and lies
\* in [0, 1] for every bid of the domain after one or more updates.
C5_PredictedUtilityInUnitInterval ==
  \A b \in AllBids(profile) :
     LET u == GetPredictedUtility(Model, b)
     IN  /\ Len(Model.offers) = 0 => u = FZero
         /\ ~ FLess(FOne, u)

\* C6: after every IssueEstimator.update every value whose count equals
\* max_value_count has stored utility exactly 1.
C6_MostFrequentValueHasUtilityOne ==
  \A i \in DOMAIN Model.issue_estimators :
     LET ie == Model.issue_estimators[i]
     IN  \A v \in DOMAIN ie.value_trackers :
            ie.value_trackers[v].count = ie.max_value_count =>
              ie.value_trackers[v].utility = Scale

\* C7: find_bid returns, for every draw, a bid that assigns to every issue a
\* value of that issue's value set; it does not raise.
C7_FindBidReturnsLegalBid ==
  pc = "running" =>
    LET sorted_bids == SortedNow(now)
    IN  \A index \in IndexDraws(sorted_bids) :
           /\ ~ FindBid(sorted_bids, now, index).raised
           /\ LegalBid(profile, FindBid(sorted_bids, now, index).bid)

\* C8: in Group40Agent04 and Group40Agent05 every index randint can return
\* is a position of sorted_bids.
C8_IndexInRange ==
  (variant \in {"Agent04", "Agent05"} /\ pc = "running") =>
    LET sorted_bids == SortedNow(now)
    IN  \A index \in IndexDraws(sorted_bids) : index < Len(sorted_bids)

\* C9: after Settings, all_bids_utility of Group40Agent04 and Group40Agent05
\* holds every bid of the domain with its utility under the own profile.
C9_AllBidsRecorded ==
  (variant \in {"Agent04", "Agent05"} /\ pc # "new") =>
    \A b \in AllBids(profile) :
       \E k \in DOMAIN all_bids_utility :
          all_bids_utility[k] = [bid |-> b, util |-> GetUtility(profile, b)]

\* C10: IssueEstimator.update on an issue of exactly one value does not
\* raise and leaves the weight of the issue at 1.0.
C10_SingleValueIssueWeightOne ==
  \A i \in DOMAIN Model.issue_estimators :
     LET ie == Model.issue_estimators[i]
     IN  (ie.num_values = 1 /\ ie.bids_received >= 1) =>
           (Model.err = "" /\ ie.weight = FOne)

\* C11: accept_condition of Group40Agent04 and Group40Agent05 returns a
\* result, without raising, for the offer received last and every history,
\* those with no recorded offer inside the window [2p - 1, p] and those with
\* the offer below the window minimum included.  Stated for the histories
\* in which find_bid has candidates to choose from.
C11_StatisticalPolicyCompletes ==
  (variant \in {"Agent04", "Agent05"} /\ pc = "running"
     /\ last_received_bid # NoBid) =>
    \A sorted_bids \in { SortedNow(now) } :
       Len(sorted_bids) > 0 =>
         \A index \in IndexDraws(sorted_bids), r \in RandomDraws :
            AcceptCondition(last_received_bid, now,
                            FindBid(sorted_bids, now, index), r)
              \in {"accept", "reject"}

\* C12: for an issue of at least 2 values, as long as every update so far
\* (N >= 1 of them) offered the same value, the issue weight is 1.
C12_IdenticalOffersWeightOne ==
  \A i \in DOMAIN Model.issue_estimators :
     LET ie == Model.issue_estimators[i]
         values == OfferedValues(Model, i)
     IN  (ie.num_values >= 2 /\ Len(values) >= 1
            /\ \A j \in DOMAIN values : values[j] = values[1]) =>
           ie.weight = FOne

C12_Witness ==
  \E i \in DOMAIN Model.issue_estimators :
     LET ie == Model.issue_estimators[i]
         values == OfferedValues(Model, i)
     IN  /\ ie.num_values >= 2
         /\ Len(values) >= 3
         /\ \A j \in DOMAIN values : values[j] = values[1]
         /\ ie.bids_received = Len(values)
         /\ ie.weight = FOne

\* C13: for an issue of k >= 2 values whose offers start with m >= 1 uniform
\* cycles through all k values, the weight is 0 right after the m-th cycle,
\* and the weight after the m cycles and the extra offers that follow them
\* is no larger than the weight after m - 1 cycles and the same extra offers.
C13_UniformCycles ==
  \A i \in DOMAIN Model.issue_estimators :
     LET ie == Model.issue_estimators[i]
         k == ie.num_values
         values == OfferedValues(Model, i)
         n == Len(values)
         Cycles(m) ==
           /\ m * k <= n
           /\ \A a, b \in 1 .. k : a # b => values[a] # values[b]
           /\ \A j \in k + 1 .. m * k : values[j] = values[j - k]
     IN  k >= 2 =>
           \A m \in 1 .. n :
              Cycles(m) =>
                /\ n = m * k => ie.weight = FZero
                /\ ~FLess(IssueEstimatorAfter(k, SubSeq(values, k + 1, n)).weight,
                          ie.weight)

C13_Witness ==
  \E i \in DOMAIN Model.issue_estimators :
     LET ie == Model.issue_estimators[i]
         k == ie.num_values
         values == OfferedValues(Model, i)
     IN  /\ k >= 2
         /\ Len(values) = 2 * k + 1
         /\ \A a, b \in 1 .. k : a # b => values[a] # values[b]
         /\ \A j \in k + 1 .. 2 * k : values[j] = values[j - k]
         /\ FLess(FZero, ie.weight)
         /\ FLess(ie.weight,
                  IssueEstimatorAfter(k, SubSeq(values, k + 1, 2 * k + 1)).weight)

\* C14: a binary issue after the three offers A, A, B has a weight strictly
\* between 0 and 1, utility(A) = 1 and 0 < utility(B) < 1.
C14_BinaryIssueAAB ==
  \A i \in DOMAIN Model.issue_estimators, A, B \in 1 .. 2 :
     LET ie == Model.issue_estimators[i]
     IN  (ie.num_values = 2 /\ A # B
            /\ OfferedValues(Model, i) = << A, A, B >>) =>
           /\ FLess(FZero, ie.weight)
           /\ FLess(ie.weight, FOne)
           /\ GetValueUtility(ie, A) = Scale
           /\ GetValueUtility(ie, B) > 0
           /\ GetValueUtility(ie, B) < Scale

C14_Witness ==
  \E i \in DOMAIN Model.issue_estimators :
     LET ie == Model.issue_estimators[i]
     IN  /\ ie.num_values = 2
         /\ OfferedValues(Model, i) = << 1, 1, 2 >>
         /\ ie.bids_received = 3
         /\ ie.max_value_count = 2
         /\ GetValueUtility(ie, 2) > 0
         /\ GetValueUtility(ie, 2) < Scale

\* C15: in a domain of two issues (price, colour), when every recorded offer
\* carries the same price and the colour alternates from offer to offer,
\* after two or more offers the predicted utility of every bid with that
\* price is strictly greater than that of every bid with another price,
\* whatever the colours of the two bids.
C15_ConstantPriceRanksFirst ==
  LET offers == Model.offers
      n == Len(offers)
  IN  (/\ Len(profile.nv) = 2
       /\ n >= 2
       /\ \A j \in 1 .. n : offers[j][1] = offers[1][1]
       /\ \A j \in 1 .. n - 1 : offers[j][2] # offers[j + 1][2]
       /\ \A j \in 3 .. n : offers[j][2] = offers[j - 2][2]) =>
        \A price \in 1 .. profile.nv[1], c1, c2 \in 1 .. profile.nv[2] :
           price # offers[1][1] =>
             FLess(GetPredictedUtility(Model, << price, c2 >>),
                   GetPredictedUtility(Model, << offers[1][1], c1 >>))

C15_Witness ==
  /\ profile.nv = << 4, 2 >>
  /\ Model.offers = << << 1, 1 >>, << 1, 2 >>, << 1, 1 >> >>
  /\ Model.issue_estimators[1].weight = FOne
  /\ FLess(FZero, Model.issue_estimators[2].weight)
  /\ FLess(GetPredictedUtility(Model, << 2, 1 >>),
           GetPredictedUtility(Model, << 1, 2 >>))

\* C17: get_issue_value_utilities called with an issue id that is not an
\* issue of the domain raises ValueError and leaves the estimator state
\* (offers, issue estimators, counts, weights, utilities) as it was.
C17_UnknownIssueRaisesValueError ==
  [][\A issue_id \in IssueIds :
       (EstQuery(issue_id) /\ issue_id \notin Issues(profile)) =>
         (error' = "ValueError" /\ opponent_model' = opponent_model)]_vars

C17_Witness ==
  /\ variant = "Estimator"
  /\ error = "ValueError"
  /\ Len(Model.offers) >= 2
  /\ \E i \in Issues(profile) :
       /\ Model.issue_estimators[i].weight # FZero
       /\ Model.issue_estimators[i].value_trackers # NoTrackers

\* C19: in phase 3 of Group40Agent02 (0.6 <= p < 0.99) accept_condition
\* accepts the offer received last iff its utility is >= the utility of
\* the next counter-offer, or >= the utility of every recorded offer
\* received at a progress t with 2p - 1 <= t <= p.  For the progress values
\* of ExactAbove the double 2p - 1 computed exactly lies above the double
\* of the hundredth 2p - 100, which is then outside [2p - 1, p].
C19_PhaseThreeWindowRule ==
  (variant = "Agent02" /\ pc = "running" /\ last_received_bid # NoBid
     /\ Phase2End <= now /\ now < Phase3End) =>
    LET ExactAbove == {51, 52, 53, 54, 55, 56, 65, 66, 67, 68, 79, 80, 81,
                       91, 92, 93}
        window == { t \in DOMAIN time_to_bid :
                      /\ 2 * now - 100 <= t
                      /\ t <= now
                      /\ ~(t = 2 * now - 100 /\ now \in ExactAbove) }
        opponent_bid_util == GetUtility(profile, last_received_bid)
        our_next_util == GetUtility(profile, FindBid02(profile, now))
    IN  (AcceptCondition02(profile, time_to_bid, last_received_bid, now)
           = "accept")
        <=> \/ opponent_bid_util >= our_next_util
            \/ \A t \in window :
                  opponent_bid_util >= GetUtility(profile, time_to_bid[t])

C18_FourPhasesPartition ==
  result # "" =>
    LET accepted == result = "accept"
        offered == call.opponent_bid_util
        next == call.our_next_util
        phases == << 0 .. 29, 30 .. 59, 60 .. 98, 99 .. 100 >>
    IN  /\ Cardinality({ k \in 1 .. 4 : now \in phases[k] }) = 1
        /\ now \in phases[1] => (accepted <=> AcNext(offered, next))
        /\ now \in phases[2] => (accepted <=> offered >= next)
        /\ now \in phases[3] =>
             (accepted <=> (offered >= next \/ offered >= call.util_threshold))
        /\ now \in phases[4] => accepted

C18_Witness ==
  /\ now = 30
  /\ result = "accept"
  /\ call.opponent_bid_util = call.our_next_util
  /\ call.our_next_util > 0
  /\ call.opponent_bid_util < call.util_threshold

\* C20: in Group40Agent04 and Group40Agent05, once the reject guards have
\* passed (bid not None, not below the reservation utility, fairness guard
\* not firing), accept_condition returns true iff one of three triggers
\* fires: p_accept - (random + delta) >= 0.1, offered utility >= 1.02 times
\* the utility of the next counter-offer, or progress + max_time_for_turn
\* > 1.  Stated for the offer received last and the histories in which
\* find_bid has candidates.
C20_AcceptIffTrigger ==
  (variant \in {"Agent04", "Agent05"} /\ pc = "running"
     /\ last_received_bid # NoBid) =>
    \A sorted_bids \in { SortedNow(now) } :
       Len(sorted_bids) > 0 =>
         \A index \in IndexDraws(sorted_bids), r \in RandomDraws :
            LET next == FindBid(sorted_bids, now, index)
                offered == GetUtility(profile, last_received_bid)
                guards_passed ==
                  /\ ~BelowReservation04(profile, offered)
                  /\ variant = "Agent05" =>
                       /\ ~BelowReservation05(profile, offered)
                       /\ ~FairnessGuard05(Model, last_received_bid, offered,
                                           now)
                minimum == CalcMinW(profile, time_to_bid, WindowStart(now))
                p_accept == IF offered >= minimum THEN Scale
                            ELSE Scale - (minimum - offered)
                probability == p_accept - (r + Delta(now)) >= 1000
                concession ==
                  offered * 100 >= GetUtility(profile, next.bid) * 102
                deadline == now + max_time_for_turn > 100
            IN  guards_passed =>
                  ((AcceptCondition(last_received_bid, now, next, r) = "accept")
                     <=> (probability \/ concession \/ deadline))

\* C21: in Group40Agent05, whenever progress < 0.98 and the predicted
\* counterpart utility of the offer received last is strictly greater than
\* its own utility, accept_condition is false whatever the triggers and the
\* draws; from progress 0.98 on the result is the one of the reservation
\* test and the triggers alone.
C21_FairnessGuard ==
  (variant = "Agent05" /\ pc = "running" /\ last_received_bid # NoBid) =>
    \A sorted_bids \in { SortedNow(now) } :
       \A index \in IndexDraws(sorted_bids), r \in RandomDraws :
          LET bid == last_received_bid
              own_utility == GetUtility(profile, bid)
              next == FindBid(sorted_bids, now, index)
              decision == AcceptCondition(bid, now, next, r)
          IN  FExceeds(GetPredictedUtility(Model, bid), own_utility) =>
                /\ now < 98 => decision = "reject"
                /\ (now >= 98 /\ ReservationUtil(profile) < own_utility) =>
                     decision =
                       AcceptCondition04(profile, time_to_bid,
                                         max_time_for_turn, bid, now, next, r)

\* Group40Agent05 answered with an Offer, before progress 0.98, an offer the
\* triggers alone accept and the estimator predicts to be worth more to the
\* counterpart
C21_Witness ==
  /\ variant = "Agent05"
  /\ pc = "running"
  /\ now < 98
  /\ last_received_bid # NoBid
  /\ turn_sent = 1
  /\ last_my_turn_time = now
  /\ last_sent.type = "Offer"
  /\ FExceeds(GetPredictedUtility(Model, last_received_bid),
              GetUtility(profile, last_received_bid))
  /\ ReservationUtil(profile) < GetUtility(profile, last_received_bid)
  /\ \E r \in RandomDraws :
       Triggers(profile, time_to_bid, max_time_for_turn,
                GetUtility(profile, last_received_bid),
                GetUtility(profile, last_sent.bid), now, r) = "accept"

\* C22: in Group40Agent04 and Group40Agent05 max_time_for_turn is the
\* largest difference between the progress values of two consecutive
\* YourTurn events of the session, 0 while there have been fewer than two;
\* it is never negative and never decreases.
C22_LargestTurnGap ==
  /\ [](LET gaps == { b - a : <<a, b>> \in
                         { t \in turn_times \X turn_times :
                             /\ t[1] < t[2]
                             /\ \A c \in turn_times :
                                  ~(t[1] < c /\ c < t[2]) } }
        IN  /\ max_time_for_turn >= 0
            /\ (variant \in {"Agent04", "Agent05"} /\ pc = "running") =>
                 /\ \A g \in gaps : g <= max_time_for_turn
                 /\ max_time_for_turn \in gaps \cup {0}
                 /\ Cardinality(turn_times) < 2 => max_time_for_turn = 0)
  /\ [][max_time_for_turn' >= max_time_for_turn]_vars

\* three turns, the last two closer to each other than the first two
C22_Witness ==
  /\ variant \in {"Agent04", "Agent05"}
  /\ pc = "running"
  /\ Cardinality(turn_times) >= 3
  /\ max_time_for_turn > 0
  /\ last_my_turn_time = now
  /\ \E a \in turn_times :
       /\ a < now
       /\ \A c \in turn_times : ~(a < c /\ c < now)
       /\ now - a < max_time_for_turn

\* C23: when my_turn rejects the offer received last, the bid it offers is
\* the candidate whose utility accept_condition used as the next
\* counter-offer in that turn.  Stated for every draw of the turn about to
\* be taken in which accept_condition reaches its find_bid call (an offer
\* has been received and, in Group40Agent05, the guards of line 257 do not
\* reject): an Offer carries the bid of that call.
C23_SingleCandidate ==
  (pc = "running" /\ last_received_bid # NoBid) =>
    \A sorted_bids \in { SortedNow(now) } :
       \A i1 \in IndexDraws(sorted_bids), i2 \in IndexDraws(sorted_bids),
          r \in RandomDraws :
         \A out \in { TurnOutcome(sorted_bids, now, i1, r, i2) } :
            LET own_utility == GetUtility(profile, last_received_bid)
                guarded ==
                  /\ variant = "Agent05"
                  /\ \/ BelowReservation05(profile, own_utility)
                     \/ FairnessGuard05(Model, last_received_bid,
                                        own_utility, now)
            IN  (out.raised = "" /\ out.action.type = "Offer" /\ ~guarded) =>
                  out.action.bid = FindBid(sorted_bids, now, i1).bid

\* C24: OpponentModel.offers is append-only.  It is empty at the start of
\* the session, every Offer event of the counterpart appends the bid of the
\* event at its end and leaves the earlier entries as they were, and every
\* other event (Accept of the counterpart, YourTurn, Settings, ...) leaves
\* it unchanged: in every state it is the sequence of the bids of the Offer
\* events so far, in arrival order.
C24_OffersAppendOnly ==
  (IF HasModel THEN Model.offers ELSE << >>) = offers_received

\* two different offers on record in the order of their receipt, an Accept
\* of the counterpart and a turn of the agent having followed
C24_Witness ==
  /\ variant = "Agent05"
  /\ NumOffers = 2
  /\ Model.offers[1] # Model.offers[2]
  /\ \E t1, t2 \in DOMAIN time_to_bid :
       /\ t1 < t2
       /\ time_to_bid[t1] = Model.offers[1]
       /\ time_to_bid[t2] = Model.offers[2]
  /\ last_received_bid = Model.offers[2]
  /\ turn_sent = 1
  /\ last_my_turn_time > 0

\* C25: an offer of the counterpart received at a progress value that is
\* already a key of time_to_bid replaces the bid under that key, while the
\* estimator counts one more offer.  So time_to_bid never has more entries
\* than OpponentModel.offers, every entry is one of the offers, and after
\* the offer the windowed maximum, minimum and average are those of the
\* other entries and the new bid: the overwritten bid no longer counts.
C25_LaterOfferOverwrites ==
  /\ [](/\ Cardinality(DOMAIN time_to_bid) <= NumOffers
        /\ \A t \in DOMAIN time_to_bid :
              \E k \in 1 .. NumOffers : Model.offers[k] = time_to_bid[t])
  /\ [][offers_received' # offers_received =>
          LET bid == offers_received'[Len(offers_received')]
              kept == [t \in DOMAIN time_to_bid \ {now} |-> time_to_bid[t]]
              us(start) == WindowUtils(profile, kept, start)
                             \cup (IF 2 * now >= start
                                   THEN {GetUtility(profile, bid)} ELSE {})
              cnt(start) == Cardinality({t \in DOMAIN kept : 2 * t >= start})
                              + (IF 2 * now >= start THEN 1 ELSE 0)
          IN  /\ DOMAIN time_to_bid' = DOMAIN time_to_bid \cup {now}
              /\ time_to_bid'[now] = bid
              /\ \A t \in DOMAIN kept : time_to_bid'[t] = kept[t]
              /\ Len(opponent_model'[1].offers) = NumOffers + 1
              /\ \A start \in {WindowStart(q) : q \in ProgressPoints} :
                    /\ CalcMaxW(profile, time_to_bid', start)
                         = SetMax(us(start) \cup {0})
                    /\ CalcMinW(profile, time_to_bid', start)
                         = SetMin(us(start) \cup {Scale})
                    /\ CalcAvgW(profile, time_to_bid', start)
                         = IF cnt(start) = 0 THEN [sum |-> 0, n |-> 1]
                           ELSE [sum |-> CalcAvgW(profile, kept, start).sum
                                          + (IF 2 * now >= start
                                             THEN GetUtility(profile, bid)
                                             ELSE 0),
                                 n |-> cnt(start)]]_vars

\* two different offers were received at the same progress: the table has
\* one entry, the later bid, the estimator has both, and the windowed
\* maximum is the utility of the later bid, below that of the earlier one
C25_Witness ==
  /\ variant = "Agent04"
  /\ pc = "running"
  /\ NumOffers = 2
  /\ DOMAIN time_to_bid = {now}
  /\ Model.offers[1] # Model.offers[2]
  /\ time_to_bid[now] = Model.offers[2]
  /\ CalcMaxW(profile, time_to_bid, WindowStart(now))
       = GetUtility(profile, Model.offers[2])
  /\ GetUtility(profile, Model.offers[2])
       < GetUtility(profile, Model.offers[1])

\* C26: the bid that Group40Agent02.find_bid builds from the value of
\* highest score of every issue has the highest sum of the per-issue scores
\* among all bids of the domain, at every progress value.
C26_PerIssueMaximumIsGlobal ==
  (variant = "Agent02" /\ pc = "running") =>
    \A p \in ProgressPoints :
      \A best \in { FindBid02(profile, p) } :
        /\ LegalBid(profile, best)
        /\ \A bid \in AllBids(profile) :
              SumSeq([i \in Issues(profile) |->
                        ValueScore02(profile, p, i, bid[i])])
                <= SumSeq([i \in Issues(profile) |->
                             ValueScore02(profile, p, i, best[i])])

\* Agent02 has just answered its turn with the bid of find_bid, and a bid
\* of the domain scores strictly less than it, one of them in one issue only
C26_Witness ==
  /\ variant = "Agent02"
  /\ pc = "running"
  /\ turn_sent = 1
  /\ last_sent = Offer(FindBid02(profile, now))
  /\ NumBids(profile) > 2
  /\ \E bid \in AllBids(profile) :
        /\ bid # last_sent.bid
        /\ SumSeq([i \in Issues(profile) |->
                     ValueScore02(profile, now, i, bid[i])])
             < SumSeq([i \in Issues(profile) |->
                         ValueScore02(profile, now, i, last_sent.bid[i])])

\* the estimator of a session with profile pf after the Offer events of the
\* bids of offers, in their order
RECURSIVE OpponentModelAfter(_, _)
OpponentModelAfter(pf, offers) ==
  IF offers = << >> THEN NewOpponentModel(pf)
  ELSE OpponentModelUpdate(
         OpponentModelAfter(pf, SubSeq(offers, 1, Len(offers) - 1)),
         offers[Len(offers)])

\* the offer histories of at most MaxOffers offers that a session with
\* profile pf survives
Histories(pf) ==
  { h \in UNION { [1 .. n -> OfferedBids(pf)] : n \in 0 .. MaxOffers } :
      OpponentModelAfter(pf, h).err = "" }

\* sorted_bids of find_bid of variant v in a session with profile pf, at
\* progress p after the offer history h; Agent02 has no candidate list
SortedAfter(v, pf, h, p) ==
  IF v = "Agent04"
  THEN SortedBids04(AllBidsUtility(pf), OpponentModelAfter(pf, h))
  ELSE IF v = "Agent05"
  THEN SortedBids05(pf, AllBidsUtility(pf), OpponentModelAfter(pf, h), p)
  ELSE << >>

\* find_bid of variant v with the candidates sorted_bids and the draw index
FindBidOf(v, pf, sorted_bids, p, index) ==
  IF v = "Agent02"
  THEN [raised |-> FALSE, bid |-> FindBid02(pf, p)]
  ELSE PickBid(sorted_bids, index)

\* find_bid of variant v returns different bids for two offer histories,
\* the profile, the progress and the random draw being the same
DependsOnOffers(v) ==
  \E pf \in Profiles, p \in ProgressPoints :
    \E h1 \in Histories(pf), h2 \in Histories(pf) :
      \E s1 \in { SortedAfter(v, pf, h1, p) },
         s2 \in { SortedAfter(v, pf, h2, p) } :
        \E index \in IndexDraws(s1) \cap IndexDraws(s2) :
          \E b1 \in { FindBidOf(v, pf, s1, p, index) },
             b2 \in { FindBidOf(v, pf, s2, p, index) } :
            /\ ~b1.raised
            /\ ~b2.raised
            /\ b1.bid # b2.bid

\* C27: in every variant the counter-bid depends on the observed offers:
\* whatever variant has answered a turn with a counter-bid, there are a
\* profile, a progress value, a random draw and two offer histories for
\* which its find_bid returns two different bids.
C27_CounterBidConsultsEstimator ==
  (pc = "running" /\ turn_sent = 1 /\ last_sent.type = "Offer") =>
    DependsOnOffers(variant)

(***************************************************************************)
(* Group40Agent05.find_bid called after longer offer histories.            *)
(***************************************************************************)
\* the number of offers received before the call
FloorOffers == 5

\* the offer histories before the call: none, or FloorOffers offers that
\* the session survives
FloorHistories(pf) ==
  { h \in [1 .. FloorOffers -> OfferedBids(pf)] \cup { << >> } :
      OpponentModelAfter(pf, h).err = "" }

\* the agent after settings and the Offer events of a history, all of them
\* received at progress 0
InitFloor ==
  /\ variant = "Agent05"
  /\ profile \in Profiles
  /\ pc = "running"
  /\ now \in {0, 30, 60, 98, 100}
  /\ turn_sent = -1
  /\ last_sent = NoAction
  /\ error = ""
  /\ offers_received \in FloorHistories(profile)
  /\ instances = << >>
  /\ other = IF offers_received = << >> THEN "" ELSE "opponent"
  /\ last_received_bid =
       IF offers_received = << >> THEN NoBid
       ELSE offers_received[Len(offers_received)]
  /\ opponent_model = << OpponentModelAfter(profile, offers_received) >>
  /\ time_to_bid =
       IF offers_received = << >> THEN NoTimes
       ELSE SetTime(NoTimes, 0, last_received_bid)
  /\ all_bids_utility = AllBidsUtility(profile)
  /\ last_my_turn_time = -1
  /\ max_time_for_turn = 0
  /\ call = << >>
  /\ result = ""
  /\ turn_times = {}

\* find_bid(): the bid it returns is kept in last_sent, the exception it
\* raises in error
FindBidCall ==
  /\ variant = "Agent05"
  /\ last_sent = NoAction
  /\ error = ""
  /\ \E sorted_bids \in { SortedNow(now) } :
       \E index \in IndexDraws(sorted_bids) :
         \E found \in { FindBid(sorted_bids, now, index) } :
           IF found.raised
           THEN /\ error' = "IndexError"
                /\ UNCHANGED last_sent
           ELSE /\ last_sent' = Offer(found.bid)
                /\ UNCHANGED error
  /\ UNCHANGED << call, result, turn_times, offers_received, instances,
                  variant, profile, pc, now, turn_sent, other,
                  last_received_bid, opponent_model, time_to_bid,
                  all_bids_utility, last_my_turn_time, max_time_for_turn >>

SpecFloor == InitFloor /\ [][FindBidCall]_vars

\* C28: in Group40Agent05.find_bid the floor is 1 - avg * progress, avg the
\* mean own utility of the most recent fifth of the counterpart's offers
\* (1 when that fifth is empty).  The floor lies in [0, 1], does not rise
\* when the progress or avg rise, and every bid find_bid returns has an own
\* utility at or above the floor.
C28_UtilityFloor ==
  \A lower_window \in { LowerWindow05(profile, Model, now) } :
    \A n \in { NumOffers } :
      /\ AvgGivenUtil(profile, Model) =
           IF n \div 5 = 0 THEN Scale
           ELSE SumSeq([k \in 1 .. n \div 5 |->
                         GetUtility(profile, Model.offers[n - (n \div 5) + k])])
                  \div (n \div 5)
      /\ lower_window = Scale - (AvgGivenUtil(profile, Model) * now) \div 100
      /\ 0 <= lower_window
      /\ lower_window <= Scale
      /\ \A p \in 0 .. 100 :
            p >= now => LowerWindow05(profile, Model, p) <= lower_window
      /\ \A avg \in { GetUtility(profile, bid) : bid \in AllBids(profile) } :
            avg >= AvgGivenUtil(profile, Model)
              => Floor05(avg, now) <= lower_window
      /\ last_sent.type = "Offer"
           => GetUtility(profile, last_sent.bid) >= lower_window

\* find_bid has returned a bid after offers whose most recent fifth has a
\* mean own utility below 1, at a progress that puts the floor strictly
\* between 0 and 1, and the table has a bid below the floor
C28_Witness ==
  /\ NumOffers = FloorOffers
  /\ last_sent.type = "Offer"
  /\ AvgGivenUtil(profile, Model) < Scale
  /\ AvgGivenUtil(profile, Model) > 0
  /\ now > 0
  /\ LowerWindow05(profile, Model, now) < Scale
  /\ \E k \in DOMAIN all_bids_utility :
        all_bids_utility[k].util < LowerWindow05(profile, Model, now)

(***************************************************************************)
(* The concession trace of a stand-alone estimator.                        *)
(***************************************************************************)
\* an estimator after at most MaxEstOffers updates with bids of the domain
InitConc ==
  /\ variant = "Estimator"
  /\ profile \in EstProfiles
  /\ pc = "running"
  /\ now = 0
  /\ turn_sent = -1
  /\ last_sent = NoAction
  /\ other = ""
  /\ last_received_bid = NoBid
  /\ \E h \in UNION { [1 .. n -> AllBids(profile)] : n \in 0 .. MaxEstOffers } :
       /\ opponent_model = << OpponentModelAfter(profile, h) >>
       /\ error = opponent_model[1].err
  /\ time_to_bid = NoTimes
  /\ all_bids_utility = << >>
  /\ last_my_turn_time = -1
  /\ max_time_for_turn = 0
  /\ call = << >>
  /\ result = ""
  /\ turn_times = {}
  /\ offers_received = << >>
  /\ instances = << >>

\* calculate_concessions() on the estimator, and percent_below_zero of the
\* trace it returns (no call of percent_below_zero for None)
EstConcessions ==
  /\ variant = "Estimator"
  /\ call = << >>
  /\ call' = << Model >>
  /\ \E util_diff \in { CalculateConcessions(Model) } :
       result' = [trace |-> util_diff,
                  percent |-> IF util_diff.none THEN << >>
                              ELSE << PercentBelowZero(util_diff.diffs) >>]
  /\ UNCHANGED << turn_times, offers_received, instances, variant, profile,
                  pc, now, turn_sent, last_sent, error, other,
                  last_received_bid, opponent_model, time_to_bid,
                  all_bids_utility, last_my_turn_time, max_time_for_turn >>

SpecConc == InitConc /\ [][EstConcessions]_vars

\* C29: calculate_concessions returns None while the estimator has fewer
\* than 2 offers; otherwise it returns len(offers) - 1 differences, the i-th
\* being the predicted utility of offer i minus that of offer i + 1, both
\* predicted by the estimator as it is at the call.  percent_below_zero of
\* such a trace lies in [0, 1].
C29_ConcessionTrace ==
  call # << >> =>
    \A m \in { call[1] } :
      IF Len(m.offers) < 2
      THEN result.trace.none
      ELSE /\ ~result.trace.none
           /\ Len(result.trace.diffs) = Len(m.offers) - 1
           /\ \A i \in 1 .. Len(m.offers) - 1 :
                \A t \in { GetPredictedUtility(m, m.offers[i]) },
                   t1 \in { GetPredictedUtility(m, m.offers[i + 1]) } :
                  /\ result.trace.diffs[i].neg = FLess(t, t1)
                  /\ result.trace.diffs[i].abs =
                       IF FLess(t, t1) THEN FSub(t1, t) ELSE FSub(t, t1)
           /\ ~FLess(FOne, result.percent[1])
           /\ result.percent[1] =
                FDiv(FInt(Cardinality(
                            { i \in 1 .. Len(m.offers) - 1 :
                                FLess(GetPredictedUtility(m, m.offers[i]),
                                      GetPredictedUtility(m, m.offers[i + 1])) })),
                     FInt(Len(m.offers) - 1))

\* calculate_concessions was called on an estimator with three offers and
\* returned a trace of a fall and a rise of the predicted utility, so that
\* percent_below_zero is strictly between 0 and 1
C29_Witness ==
  /\ call # << >>
  /\ Len(call[1].offers) = 3
  /\ ~result.trace.none
  /\ \E i, j \in DOMAIN result.trace.diffs :
        /\ BelowZero(result.trace.diffs[i])
        /\ ~result.trace.diffs[j].neg
        /\ result.trace.diffs[j].abs # FZero
  /\ FLess(FZero, result.percent[1])
  /\ FLess(result.percent[1], FOne)

\* the bookkeeping of issue estimator i of the estimator m agrees with the
\* offers of m
CountsAgree(m, i) ==
  LET ie == m.issue_estimators[i]
      values == OfferedValues(m, i)
      occurrences(v) == Cardinality({ j \in DOMAIN values : values[j] = v })
  IN  /\ ie.bids_received = Len(m.offers)
      /\ DOMAIN ie.value_trackers = { values[j] : j \in DOMAIN values }
      /\ \A v \in DOMAIN ie.value_trackers :
            ie.value_trackers[v].count = occurrences(v)
      /\ SumSeq([v \in 1 .. ie.num_values |->
                   IF v \in DOMAIN ie.value_trackers
                   THEN ie.value_trackers[v].count ELSE 0]) = ie.bids_received
      /\ ie.max_value_count =
           SetMax({ ie.value_trackers[v].count : v \in DOMAIN ie.value_trackers }
                  \cup {0})

\* C30: in every reachable state of an estimator and for every issue,
\* bids_received is the number of offers recorded, the counts of the value
\* estimators sum to it, there is one value estimator per distinct value
\* offered for the issue, and max_value_count is the largest of the counts.
C30_EstimatorCounts ==
  HasModel => \A i \in DOMAIN Model.issue_estimators : CountsAgree(Model, i)

\* C31: for every issue of at least 2 values that has been updated at least
\* once, the most-offered count lies between the equal share
\* bids_received / num_values and bids_received, the weight lies in [0, 1],
\* every stored value utility lies in (0, 1], and a value offered no more
\* often than another has no higher utility than it.
C31_WeightAndUtilitiesBounded ==
  HasModel =>
    \A i \in DOMAIN Model.issue_estimators :
      \A ie \in { Model.issue_estimators[i] } :
        (ie.num_values >= 2 /\ ie.bids_received >= 1) =>
          /\ ie.max_value_count * ie.num_values >= ie.bids_received
          /\ ie.max_value_count <= ie.bids_received
          /\ ie.weight.m >= 0
          /\ ~FLess(FOne, ie.weight)
          /\ \A v \in DOMAIN ie.value_trackers :
                /\ 0 < ie.value_trackers[v].utility
                /\ ie.value_trackers[v].utility <= Scale
          /\ \A u, v \in DOMAIN ie.value_trackers :
                ie.value_trackers[u].count <= ie.value_trackers[v].count
                  => ie.value_trackers[u].utility <= ie.value_trackers[v].utility

\* an issue of 3 values after at least 4 updates: its weight is strictly
\* between 0 and 1 and three values of three different counts have three
\* different utilities
C31_Witness ==
  /\ HasModel
  /\ \E i \in DOMAIN Model.issue_estimators :
        \E ie \in { Model.issue_estimators[i] } :
          /\ ie.num_values = 3
          /\ ie.bids_received >= 4
          /\ FLess(FZero, ie.weight)
          /\ FLess(ie.weight, FOne)
          /\ \E u, v, w \in DOMAIN ie.value_trackers :
                /\ ie.value_trackers[u].count < ie.value_trackers[v].count
                /\ ie.value_trackers[v].count < ie.value_trackers[w].count
                /\ ie.value_trackers[u].utility < ie.value_trackers[v].utility
                /\ ie.value_trackers[v].utility < ie.value_trackers[w].utility
                /\ ie.value_trackers[w].utility = Scale

(***************************************************************************)
(* Queries of a stand-alone estimator between its updates.                 *)
(***************************************************************************)
\* get_value_utility reading self.value_trackers[value] without the test:
\* the defaultdict makes a ValueEstimator for a value it does not hold
GetValueUtilityCallInsert(ie, value) ==
  [utility |-> GetValueUtility(ie, value),
   est |-> [ie EXCEPT !.value_trackers =
              [v \in DOMAIN ie.value_trackers \cup {value} |->
                 IF v \in DOMAIN ie.value_trackers THEN ie.value_trackers[v]
                 ELSE [count |-> 0, utility |-> 0]]]]

\* IssueEstimator.get_value_utility as a call: the value returned and the
\* estimator as the call leaves it ("value in self.value_trackers" does not
\* make an entry)
GetValueUtilityCall(ie, value) ==
  [utility |-> GetValueUtility(ie, value), est |-> ie]

\* OpponentModel.get_predicted_utility as a call: the value returned and the
\* model as the call leaves it, one get_value_utility call per issue
GetPredictedUtilityCall(m, bid) ==
  IF Len(m.offers) = 0 \/ bid = NoBid
  THEN [utility |-> GetPredictedUtility(m, bid), model |-> m]
  ELSE [utility |-> GetPredictedUtility(m, bid),
        model |-> [m EXCEPT !.issue_estimators =
                     [i \in DOMAIN m.issue_estimators |->
                        GetValueUtilityCall(m.issue_estimators[i], bid[i]).est]]]

\* a new estimator of one of the domains of at most 4 bids
InitQuery ==
  /\ InitEst
  /\ profile \in { pf \in Profiles : NumBids(pf) <= 4 }

\* issue_estimators[issue_id].get_value_utility(value)
EstValueQuery(issue_id, value) ==
  /\ variant = "Estimator"
  /\ \E r \in { GetValueUtilityCall(Model.issue_estimators[issue_id], value) } :
       opponent_model' =
         << [Model EXCEPT !.issue_estimators[issue_id] = r.est] >>
  /\ call' = << "get_value_utility", issue_id, value >>
  /\ UNCHANGED << result, turn_times, offers_received, instances, variant,
                  profile, pc, now, turn_sent, last_sent, error, other,
                  last_received_bid, time_to_bid, all_bids_utility,
                  last_my_turn_time, max_time_for_turn >>

\* get_predicted_utility(bid)
EstPredict(bid) ==
  /\ variant = "Estimator"
  /\ \E r \in { GetPredictedUtilityCall(Model, bid) } :
       opponent_model' = << r.model >>
  /\ call' = << "get_predicted_utility", bid >>
  /\ UNCHANGED << result, turn_times, offers_received, instances, variant,
                  profile, pc, now, turn_sent, last_sent, error, other,
                  last_received_bid, time_to_bid, all_bids_utility,
                  last_my_turn_time, max_time_for_turn >>

NextQuery ==
  \/ \E bid \in AllBids(profile) : EstUpdate(bid)
  \/ \E issue_id \in Issues(profile) :
       \E value \in 1 .. profile.nv[issue_id] : EstValueQuery(issue_id, value)
  \/ \E bid \in AllBids(profile) \cup {NoBid} : EstPredict(bid)

SpecQuery == InitQuery /\ [][NextQuery]_vars

\* C32: get_value_utility and get_predicted_utility leave the estimator as
\* it was, whatever their argument; get_value_utility returns 0 for a value
\* not offered yet and makes no value estimator for it.  So after any
\* interleaving of queries and updates the estimator is the one the updates
\* alone produce.
C32_QueriesLeaveEstimator ==
  /\ Model = OpponentModelAfter(profile, Model.offers)
  /\ \A i \in Issues(profile) :
        \A ie \in { Model.issue_estimators[i] } :
          \A value \in 1 .. profile.nv[i] :
            \A r \in { GetValueUtilityCall(ie, value) } :
              /\ r.est = ie
              /\ value \notin DOMAIN ie.value_trackers =>
                    /\ r.utility = 0
                    /\ value \notin DOMAIN r.est.value_trackers
              /\ value \in DOMAIN ie.value_trackers =>
                    r.utility = ie.value_trackers[value].utility
  /\ \A bid \in AllBids(profile) \cup {NoBid} :
        GetPredictedUtilityCall(Model, bid).model = Model

\* the last call was get_value_utility for a value of the second issue that
\* no offer has named, on an estimator with two offers; the issue still has
\* one value estimator only
C32_Witness ==
  /\ Len(call) = 3
  /\ call[1] = "get_value_utility"
  /\ call[2] = 2
  /\ Len(Model.offers) = 2
  /\ Model.err = ""
  /\ call[3] \notin DOMAIN Model.issue_estimators[2].value_trackers
  /\ Cardinality(DOMAIN Model.issue_estimators[2].value_trackers) = 1

\* C33: in every state of a session last_received_bid is None exactly when
\* no offer of the counterpart has been received, and otherwise it is the
\* last element of OpponentModel.offers; an Accept that my_turn emits
\* carries that bid.
C33_LastReceivedBid ==
  /\ (last_received_bid = NoBid) <=> (offers_received = << >>)
  /\ last_received_bid # NoBid =>
        /\ HasModel
        /\ NumOffers > 0
        /\ last_received_bid = Model.offers[NumOffers]
  /\ pc = "running" =>
        \A sorted_bids \in { SortedNow(now) } :
          \A i1 \in IndexDraws(sorted_bids), i2 \in IndexDraws(sorted_bids),
             r \in RandomDraws :
            \A out \in { TurnOutcome(sorted_bids, now, i1, r, i2) } :
              (out.raised = "" /\ out.action.type = "Accept") =>
                /\ last_received_bid # NoBid
                /\ out.action.bid = last_received_bid

\* C34: an ActionDone event of the agent's own action, an action of the
\* counterpart that is not an Offer, and an event of unknown type leave
\* last_received_bid, time_to_bid, the opponent model and the turn timers
\* as they were and send no action.
C34_OtherEventsChangeNothing ==
  [][(OwnActionDone \/ OpponentAccept \/ UnknownEvent) =>
       UNCHANGED << last_received_bid, time_to_bid, opponent_model,
                    last_my_turn_time, max_time_for_turn, turn_sent,
                    last_sent, all_bids_utility, pc, error >>]_vars

\* Agent04 has received the counterpart's Accept and nothing else: the name
\* of the counterpart is known, no bid was received or recorded, the model
\* is the new one of Settings and no action was sent
C34_Witness ==
  /\ variant = "Agent04"
  /\ pc = "running"
  /\ other = "opponent"
  /\ offers_received = << >>
  /\ instances = << >>
  /\ last_received_bid = NoBid
  /\ time_to_bid = NoTimes
  /\ opponent_model = << NewOpponentModel(profile) >>
  /\ last_my_turn_time = -1
  /\ last_sent = NoAction

\* C35: Group40Agent02.find_bid returns one and the same bid at every
\* progress value and after every offer history, a bid of the highest own
\* utility of the domain.  When that utility is 1, accept_condition accepts
\* no bid while the progress is below 0.3, and my_turn sends no Accept.
C35_FindBidConstant ==
  (variant = "Agent02" /\ pc = "running") =>
    \A best \in { FindBid02(profile, 0) } :
      /\ \A p \in ProgressPoints \cup {1, 15, 29, 50, 80} :
            FindBid02(profile, p) = best
      /\ \A bid \in AllBids(profile) :
            GetUtility(profile, bid) <= GetUtility(profile, best)
      /\ GetUtility(profile, best) = Scale =>
            /\ \A p \in {0, 1, 15, Phase1End - 1} :
                  \A bid \in AllBids(profile) \cup {NoBid} :
                    AcceptCondition02(profile, time_to_bid, bid, p) = "reject"
            /\ now < Phase1End =>
                  \A r \in RandomDraws :
                    TurnOutcome(<< >>, now, 0, r, 0).action.type # "Accept"

\* Agent02 received a bid of own utility 1 before progress 0.3 and has
\* answered the turn with the bid of find_bid, not with an Accept
C35_Witness ==
  /\ variant = "Agent02"
  /\ pc = "running"
  /\ now < Phase1End
  /\ last_received_bid # NoBid
  /\ GetUtility(profile, last_received_bid) = Scale
  /\ turn_sent = 1
  /\ last_sent = Offer(FindBid02(profile, now))
  /\ GetUtility(profile, last_sent.bid) = Scale
  /\ NumBids(profile) > 2

\* the receipt times of the recorded offers at or after 2p - 1
TrailingWindow(ttb, p) == { t \in DOMAIN ttb : t >= p - (100 - p) }

\* C36: in phase 3 of the phased policy, when no recorded offer was
\* received at or after 2p - 1 the window threshold is 0 and
\* accept_condition accepts every bid that is not None; and when the last
\* received bid was received at or after 2p - 1, the window clause accepts it
\* exactly when no offer received at or after 2p - 1 has a strictly higher
\* own utility.
C36_TrailingWindow ==
  (/\ variant = "Agent02"
   /\ pc = "running"
   /\ Phase2End <= now
   /\ now < Phase3End
   /\ last_received_bid # NoBid) =>
    \A window \in { TrailingWindow(time_to_bid, now) } :
      \A util_threshold \in { CalcMaxW(profile, time_to_bid, WindowStart(now)) } :
        /\ window = {} =>
              /\ util_threshold = 0
              /\ \A bid \in AllBids(profile) :
                    AcceptCondition02(profile, time_to_bid, bid, now) = "accept"
        /\ (\E t \in window : \A u \in DOMAIN time_to_bid : u <= t) =>
              ((GetUtility(profile, last_received_bid) >= util_threshold)
                 <=> \A t \in window :
                       GetUtility(profile, time_to_bid[t])
                         <= GetUtility(profile, last_received_bid))

(***************************************************************************)
(* Two instances of Group40Agent05 in one process.  The objects the        *)
(* instances hold (lists, dictionaries, estimators) live in a heap, a      *)
(* sequence of object values; a field that holds an object holds its       *)
(* address.  The clock is the one of the process.                          *)
(***************************************************************************)
\* the number of offers each instance receives
MaxTwoOffers == 1

Ids == {"a", "b"}

OtherId(x) == IF x = "a" THEN "b" ELSE "a"

\* the profile both sessions run with
TwoProfile == CHOOSE pf \in Profiles : pf.nv = <<2, 2>>

\* the offers the counterparts send: the first and the last bid of the domain
TwoOffers == { BidAt(TwoProfile.nv, i) : i \in {0, NumBids(TwoProfile) - 1} }

\* the times of the events
TwoPoints == {0, 60, 100}

\* one object for every creation: the newest object is handed out again
AllocShared(heap, obj) ==
  IF heap = << >> THEN [heap |-> << obj >>, addr |-> 1]
  ELSE [heap |-> [heap EXCEPT ![Len(heap)] = obj], addr |-> Len(heap)]

\* the creation of an object ([], {}, dict(), defaultdict(...)): a new
\* address
Alloc(heap, obj) == [heap |-> Append(heap, obj), addr |-> Len(heap) + 1]

\* Group40Agent05.__init__
NewAgent05(heap) ==
  LET t == Alloc(heap, NoTimes)
      u == Alloc(t.heap, << >>)
  IN  [heap |-> u.heap,
       fields |-> [pc |-> "new", error |-> "", last_received_bid |-> NoBid,
                   opponent_model |-> << >>, time_to_bid |-> t.addr,
                   all_bids_utility |-> u.addr, last_my_turn_time |-> -1,
                   max_time_for_turn |-> 0]]

\* OpponentModel.__init__: the list of offers and the issue estimators, each
\* with its own value_trackers
NewOpponentModelObject(heap, pf) ==
  LET o == Alloc(heap, << >>)
      e == Alloc(o.heap, NewOpponentModel(pf).issue_estimators)
  IN  [heap |-> e.heap,
       ref |-> [offers |-> o.addr, issue_estimators |-> e.addr]]

\* the estimator an instance with the fields f holds, read from the heap
ModelOf(heap, f) ==
  [offers |-> heap[f.opponent_model[1].offers],
   issue_estimators |-> heap[f.opponent_model[1].issue_estimators],
   err |-> ""]

\* the addresses of the objects an instance holds
Addresses(f) ==
  {f.time_to_bid, f.all_bids_utility}
    \cup (IF f.opponent_model = << >> THEN {}
          ELSE {f.opponent_model[1].offers,
                f.opponent_model[1].issue_estimators})

\* the state of an instance: its fields with the objects they hold
ViewOf(inst, x) ==
  [pc |-> inst[x].pc,
   last_received_bid |-> inst[x].last_received_bid,
   time_to_bid |-> inst.heap[inst[x].time_to_bid],
   all_bids_utility |-> inst.heap[inst[x].all_bids_utility],
   opponent_model |->
     IF inst[x].opponent_model = << >> THEN << >>
     ELSE << ModelOf(inst.heap, inst[x]) >>,
   last_my_turn_time |-> inst[x].last_my_turn_time,
   max_time_for_turn |-> inst[x].max_time_for_turn]

\* the process after the two constructor calls
InitTwo ==
  /\ variant = "Agent05"
  /\ profile = TwoProfile
  /\ pc = "running"
  /\ now = 0
  /\ turn_sent = -1
  /\ last_sent = NoAction
  /\ error = ""
  /\ other = ""
  /\ last_received_bid = NoBid
  /\ opponent_model = << >>
  /\ time_to_bid = NoTimes
  /\ all_bids_utility = << >>
  /\ last_my_turn_time = -1
  /\ max_time_for_turn = 0
  /\ call = << >>
  /\ result = ""
  /\ turn_times = {}
  /\ offers_received = << >>
  /\ \E a \in { NewAgent05(<< >>) } :
       \E b \in { NewAgent05(a.heap) } :
         instances = [heap |-> b.heap, a |-> a.fields, b |-> b.fields,
                      last |-> ""]

\* the other variables of the module stay as InitTwo sets them
TwoFrame ==
  UNCHANGED << call, result, turn_times, offers_received, variant, profile, pc,
               now, turn_sent, last_sent, error, other, last_received_bid,
               opponent_model, time_to_bid, all_bids_utility,
               last_my_turn_time, max_time_for_turn >>

\* the clock of the process advances between two events
TickTwo ==
  /\ \E t \in TwoPoints : t > now /\ now' = t
  /\ UNCHANGED << instances, call, result, turn_times, offers_received,
                  variant, profile, pc, turn_sent, last_sent, error, other,
                  last_received_bid, opponent_model, time_to_bid,
                  all_bids_utility, last_my_turn_time, max_time_for_turn >>

\* notifyChange(Settings) of instance x
SettingsOf(x) ==
  /\ instances[x].pc = "new"
  /\ \E m \in { NewOpponentModelObject(instances.heap, profile) } :
       instances' =
         [instances EXCEPT
            !.heap = [m.heap EXCEPT ![instances[x].all_bids_utility] =
                        AllBidsUtility(profile)],
            ![x].pc = "running",
            ![x].opponent_model = << m.ref >>,
            !.last = x]
  /\ TwoFrame

\* notifyChange(ActionDone) of instance x with an Offer of its counterpart
OfferOf(x, bid) ==
  /\ instances[x].pc = "running"
  /\ Len(ModelOf(instances.heap, instances[x]).offers) < MaxTwoOffers
  /\ \E f \in { instances[x] } :
       \E m1 \in { OpponentModelUpdate(ModelOf(instances.heap, f), bid) } :
         instances' =
           [instances EXCEPT
              !.heap = [instances.heap EXCEPT
                          ![f.time_to_bid] =
                             SetTime(instances.heap[f.time_to_bid], now, bid),
                          ![f.opponent_model[1].offers] = m1.offers,
                          ![f.opponent_model[1].issue_estimators] =
                             m1.issue_estimators],
              ![x].last_received_bid =
                 IF m1.err = "" THEN bid ELSE f.last_received_bid,
              ![x].pc = IF m1.err = "" THEN "running" ELSE "crashed",
              ![x].error = m1.err,
              !.last = x]
  /\ TwoFrame

\* notifyChange(YourTurn) of instance x: my_turn, the action it sends left
\* out
TurnOf(x) ==
  /\ instances[x].pc = "running"
  /\ \E f \in { instances[x] } :
       \E m \in { ModelOf(instances.heap, f) },
          ttb \in { instances.heap[f.time_to_bid] } :
         \E sorted_bids \in
              { SortedBids05(profile, instances.heap[f.all_bids_utility],
                             m, now) } :
           \E i1 \in IndexDraws(sorted_bids), i2 \in IndexDraws(sorted_bids),
              r \in RandomDraws :
             \E decision \in
                  { AcceptCondition05(profile, ttb, m, f.max_time_for_turn,
                                      f.last_received_bid, now,
                                      PickBid(sorted_bids, i1), r) } :
               \E raised \in
                    { IF decision = "accept" THEN ""
                      ELSE IF decision # "reject" THEN decision
                      ELSE IF PickBid(sorted_bids, i2).raised
                      THEN "IndexError" ELSE "" } :
                 instances' =
                   IF raised = ""
                   THEN [instances EXCEPT
                           ![x].last_my_turn_time = now,
                           ![x].max_time_for_turn =
                              IF f.last_my_turn_time = -1
                              THEN f.max_time_for_turn
                              ELSE Max2(f.max_time_for_turn,
                                        now - f.last_my_turn_time),
                           !.last = x]
                   ELSE [instances EXCEPT
                           ![x].pc = "crashed",
                           ![x].error = raised,
                           !.last = x]
  /\ TwoFrame

NextTwo ==
  \/ TickTwo
  \/ \E x \in Ids : SettingsOf(x)
  \/ \E x \in Ids : \E bid \in TwoOffers : OfferOf(x, bid)
  \/ \E x \in Ids : TurnOf(x)

SpecTwo == InitTwo /\ [][NextTwo]_vars

\* C37: two instances share no object, and an event that one instance
\* handles leaves the other's offers, time_to_bid, opponent model with its
\* issue and value estimators, bid table, timers and last received bid as
\* they were.
C37_InstancesIsolated ==
  /\ [](Addresses(instances.a) \cap Addresses(instances.b) = {})
  /\ [][\A x \in Ids :
          instances'.last = x =>
            ViewOf(instances', OtherId(x)) = ViewOf(instances, OtherId(x))]_vars

\* instance a has received an offer and has answered two turns, the second
\* one later than the first; instance b, after its Settings, still has no
\* offer, an empty time_to_bid, a new estimator and its first timers
C37_Witness ==
  /\ instances.last = "a"
  /\ instances.a.pc = "running"
  /\ instances.a.last_received_bid # NoBid
  /\ Len(ModelOf(instances.heap, instances.a).offers) = 1
  /\ instances.a.max_time_for_turn > 0
  /\ instances.b.pc = "running"
  /\ \A v \in { ViewOf(instances, "b") } :
        /\ v.last_received_bid = NoBid
        /\ v.time_to_bid = NoTimes
        /\ v.opponent_model = << NewOpponentModel(profile) >>
        /\ v.all_bids_utility = AllBidsUtility(profile)
        /\ v.last_my_turn_time = -1
        /\ v.max_time_for_turn = 0

=============================================================================
